---- MODULE Spec2Model ----
(***************************************************************************)
(* Model of the conversation-reconstruction and content-normalization      *)
(* pipeline of fastmail-agent: NormalizeSubject and GroupEmailsBySubject   *)
(* (tui/threadlist.go), HTMLToText and cleanWhitespace (export/html.go),   *)
(* StripQuotes / StripSignature (export/quotes.go) and CleanBody.          *)
(*                                                                         *)
(* A Go string is modelled as a sequence of one-character strings, so that *)
(* trimming, splitting and the regular expressions of the source are       *)
(* computed character by character.                                        *)
(***************************************************************************)
EXTENDS Integers, Sequences, FiniteSets, TLC

VARIABLES
    \* --- NormalizeSubject (tui/threadlist.go) ---
    subj,        \* the subject the run started from
    cur,         \* subj with the reply/forward prefixes prepended so far
    chain,       \* number of prefixes prepended
    key,         \* NormalizeSubject(cur) once computed
    key2,        \* NormalizeSubject(key) once computed
    spc,         \* "input" | "normalized" | "renormalized" | "off"
    \* --- GroupEmailsBySubject (tui/threadlist.go) ---
    emails,      \* the caller's input slice
    gi,          \* index of the running range loop
    groups,      \* groups: map[string][]jmap.Email
    order,       \* order: []string
    items,       \* items: []ThreadItem
    gpc,         \* "collect" | "build" | "done" | "off"
    \* --- cleanWhitespace (export/html.go) ---
    wsIn,        \* the text handed to cleanWhitespace
    wsOut,       \* cleanWhitespace(wsIn) once computed
    wsOut2,      \* cleanWhitespace(wsOut) once computed
    wpc,         \* "input" | "cleaned" | "recleaned" | "off"
    \* --- extractText / htmlToTextWithOptions (export/html.go) ---
    dom,         \* the node tree html.Parse returned
    sb,          \* the strings.Builder: the pieces written, each with its node
    text,        \* the text htmlToTextWithOptions returns
    xpc,         \* "parsed" | "walked" | "done" | "off"
    \* --- CleanBody (export options) ---
    mailBody,    \* the body handed to CleanBody
    options,     \* the ExportOptions of the run: StripQuotes, StripSignatures
    cleaned,     \* CleanBody(mailBody, options) once computed
    recleaned,   \* CleanBody(cleaned, options) once computed
    cpc,         \* "input" | "cleaned" | "recleaned" | "off"
    \* --- htmlToTextWithOptions on markup (export/html.go, export/quotes.go) ---
    hIn,         \* the markup handed to htmlToTextWithOptions
    hFlag,       \* its stripQuotes argument
    hStr,        \* the local htmlStr
    hMid,        \* StripQuotesFromHTML: the markup before and after each pattern
    hCuts,       \* StripQuotesFromHTML: where the matches each pattern removed began
    hErr,        \* the err html.Parse returned
    hDoc,        \* the doc html.Parse returned
    hOut,        \* the text returned
    hpc,         \* "input" | "stripped" | "parsed" | "failed" | "done" | "off"
    \* --- StripQuotes (export/quotes.go) ---
    qBody,       \* the body handed to StripQuotes
    qText,       \* the local body as the function goes on
    qTrace,      \* qText after each of the truncation checks done so far
    qOut,        \* the text returned
    qpc,         \* "attribution" | "forwarded" | "original" | "header" |
                 \* "lines" | "done" | "off"
    \* --- StripSignature (export/quotes.go) ---
    sigBody,     \* the body handed to StripSignature
    sigText,     \* the local body after the delimiter check
    sigLines,    \* the local lines
    sigI,        \* the loop variable i
    sigSeen,     \* the values of i the loop body has run with, in order
    sigOut,      \* the text returned
    sigpc,       \* "delimiter" | "scan" | "done" | "off"
    \* --- getCleanBody, Email.GetBodyText (part_003, jmap/email.go) ---
    eml,         \* the email: TextBody, HTMLBody, BodyValues, Preview
    bodyOpts,    \* the ExportOptions handed to getCleanBody
    partIx,      \* where the running loop over the parts is, from 1
    bodyText,    \* what GetBodyText returned
    cleanBody,   \* what getCleanBody returned
    bpc,         \* "text" | "html" | "clean" | "done" | "off"
    \* --- GroupEmailsBySubject called again, with the memory it works on ---
    rMem,        \* the arrays allocated so far; the first is the caller's
    rInput,      \* the caller's messages as they were before the first call
    rGroups,     \* the local groups: normalized subject -> slice
    rOrder,      \* the local order
    rItems,      \* the local items; Emails is a slice
    rRet,        \* the items the first call returned
    rSeen,       \* the messages of each of them when they were returned
    rCall,       \* number of calls begun
    rI,          \* where the running loop is, from 1
    rpc,         \* "call" | "collect" | "build" | "off"
    \* --- threadListModel (tui/threadlist.go) ---
    threadList,  \* the model: items, cursor, height, offset
    selected,    \* what the last Selected() returned, and of how many items
    drawn,       \* the rows the last View drew
    \* --- the TUI Model and its messages (tui/app.go) ---
    tui,         \* the Model: view, threadList, threadView, loading, status, err
    running,     \* the program has not quit
    pending,     \* the commands that are running: each will send one message
    asked,       \* number of searches submitted
    loads,       \* number of thread loads started
    delivered,   \* the search and thread results Update has handled, in order
    lastMsg,     \* the message Update handled last, and the Model before it
    \* --- attachment file names of ExportToFolder ---
    usedNames,   \* the map of names handed out: name -> count
    written,     \* the file names written to the attachments directory, in order
    attSeen,     \* number of attachments the loops have visited
    \* --- config.Load ---
    cfgEnv,      \* the value of FASTMAIL_API_TOKEN ("" when unset)
    cfgHome,     \* os.UserHomeDir succeeds
    cfgFiles,    \* what is at each config file path
    cfgRead,     \* the paths os.ReadFile was called on
    cfgOut,      \* what Load returned: the token and whether an error
    cfgpc,       \* position in Load
    \* --- jmap.Client ---
    session,     \* c.session: nil, or the session fetched
    accountID,   \* c.accountID
    clientLog,   \* the calls made on the client: what each returned and sent
    \* --- the command line: -q and -t (main) ---
    stateFile,   \* last_query.json: the QueryResult saved, or NoResult
    cliOut,      \* the last run: its flag, what it printed, fetched or launched
    cliRuns      \* number of runs of the program

subjVars == <<subj, cur, chain, key, key2, spc>>
groupVars == <<emails, gi, groups, order, items, gpc>>
wsVars == <<wsIn, wsOut, wsOut2, wpc>>
extractVars == <<dom, sb, text, xpc>>
cleanVars == <<mailBody, options, cleaned, recleaned, cpc>>
convVars == <<hIn, hFlag, hStr, hMid, hCuts, hErr, hDoc, hOut, hpc>>
quoteVars == <<qBody, qText, qTrace, qOut, qpc>>
sigVars == <<sigBody, sigText, sigLines, sigI, sigSeen, sigOut, sigpc>>
bodyVars == <<eml, bodyOpts, partIx, bodyText, cleanBody, bpc>>
regroupVars == <<rMem, rInput, rGroups, rOrder, rItems, rRet, rSeen, rCall, rI, rpc>>
listVars == <<threadList, selected, drawn>>
tuiVars == <<tui, running, pending, asked, loads, delivered, lastMsg>>
exportVars == <<usedNames, written, attSeen>>
configVars == <<cfgEnv, cfgHome, cfgFiles, cfgRead, cfgOut, cfgpc>>
clientVars == <<session, accountID, clientLog>>
cliVars == <<stateFile, cliOut, cliRuns>>
vars == <<subj, cur, chain, key, key2, spc, emails, gi, groups, order, items, gpc,
          wsIn, wsOut, wsOut2, wpc, dom, sb, text, xpc, mailBody, options, cleaned,
          recleaned, cpc, hIn, hFlag, hStr, hMid, hCuts, hErr, hDoc, hOut, hpc,
          qBody, qText, qTrace, qOut, qpc, sigBody, sigText, sigLines, sigI,
          sigSeen, sigOut, sigpc, eml, bodyOpts, partIx, bodyText, cleanBody, bpc,
          rMem, rInput, rGroups, rOrder, rItems, rRet, rSeen, rCall, rI, rpc,
          threadList, selected, drawn, tui, running, pending, asked, loads,
          delivered, lastMsg, usedNames, written, attSeen, cfgEnv, cfgHome,
          cfgFiles, cfgRead, cfgOut, cfgpc, session, accountID, clientLog,
          stateFile, cliOut, cliRuns>>

\* what the steps of one component leave alone: the other components
notSubject == <<groupVars, wsVars, extractVars, cleanVars, convVars, quoteVars,
    sigVars, bodyVars, regroupVars, listVars, tuiVars, exportVars, configVars,
    clientVars, cliVars>>
notGroup == <<subjVars, wsVars, extractVars, cleanVars, convVars, quoteVars,
    sigVars, bodyVars, regroupVars, listVars, tuiVars, exportVars, configVars,
    clientVars, cliVars>>
notWs == <<subjVars, groupVars, extractVars, cleanVars, convVars, quoteVars,
    sigVars, bodyVars, regroupVars, listVars, tuiVars, exportVars, configVars,
    clientVars, cliVars>>
notExtract == <<subjVars, groupVars, wsVars, cleanVars, convVars, quoteVars,
    sigVars, bodyVars, regroupVars, listVars, tuiVars, exportVars, configVars,
    clientVars, cliVars>>
notClean == <<subjVars, groupVars, wsVars, extractVars, convVars, quoteVars,
    sigVars, bodyVars, regroupVars, listVars, tuiVars, exportVars, configVars,
    clientVars, cliVars>>
notConv == <<subjVars, groupVars, wsVars, extractVars, cleanVars, quoteVars,
    sigVars, bodyVars, regroupVars, listVars, tuiVars, exportVars, configVars,
    clientVars, cliVars>>
notQuote == <<subjVars, groupVars, wsVars, extractVars, cleanVars, convVars,
    sigVars, bodyVars, regroupVars, listVars, tuiVars, exportVars, configVars,
    clientVars, cliVars>>
notSig == <<subjVars, groupVars, wsVars, extractVars, cleanVars, convVars,
    quoteVars, bodyVars, regroupVars, listVars, tuiVars, exportVars, configVars,
    clientVars, cliVars>>
notBody == <<subjVars, groupVars, wsVars, extractVars, cleanVars, convVars,
    quoteVars, sigVars, regroupVars, listVars, tuiVars, exportVars, configVars,
    clientVars, cliVars>>
notRegroup == <<subjVars, groupVars, wsVars, extractVars, cleanVars, convVars,
    quoteVars, sigVars, bodyVars, listVars, tuiVars, exportVars, configVars,
    clientVars, cliVars>>
notList == <<subjVars, groupVars, wsVars, extractVars, cleanVars, convVars,
    quoteVars, sigVars, bodyVars, regroupVars, tuiVars, exportVars, configVars,
    clientVars, cliVars>>
notTui == <<subjVars, groupVars, wsVars, extractVars, cleanVars, convVars,
    quoteVars, sigVars, bodyVars, regroupVars, listVars, exportVars, configVars,
    clientVars, cliVars>>
notExport == <<subjVars, groupVars, wsVars, extractVars, cleanVars, convVars,
    quoteVars, sigVars, bodyVars, regroupVars, listVars, tuiVars, configVars,
    clientVars, cliVars>>
notConfig == <<subjVars, groupVars, wsVars, extractVars, cleanVars, convVars,
    quoteVars, sigVars, bodyVars, regroupVars, listVars, tuiVars, exportVars,
    clientVars, cliVars>>
notClient == <<subjVars, groupVars, wsVars, extractVars, cleanVars, convVars,
    quoteVars, sigVars, bodyVars, regroupVars, listVars, tuiVars, exportVars,
    configVars, cliVars>>
notCli == <<subjVars, groupVars, wsVars, extractVars, cleanVars, convVars,
    quoteVars, sigVars, bodyVars, regroupVars, listVars, tuiVars, exportVars,
    configVars, clientVars>>

(***************************************************************************)
(* Bounds of the model                                                     *)
(***************************************************************************)
MaxSubjectPieces == 3
MaxChain == 2
MaxEmails == 3
MaxTextLen == 6
MaxNodes == 3
MaxBodyPieces == 3
MaxMarkupPieces == 3
MaxQuotePieces == 3
MaxSigPieces == 3
MaxParts == 2
MaxCalls == 2
MaxSpare == 1
MaxItems == 5
MaxScreenHeight == 15
MaxSearches == 2
MaxLoads == 1
MaxAttachments == 3
MaxClientOps == 3
MaxRuns == 3
MaxThreadID == 3

(***************************************************************************)
(* Strings                                                                 *)
(***************************************************************************)
UpperLetters == <<"A","B","C","D","E","F","G","H","I","J","K","L","M",
                  "N","O","P","Q","R","S","T","U","V","W","X","Y","Z">>
LowerLetters == <<"a","b","c","d","e","f","g","h","i","j","k","l","m",
                  "n","o","p","q","r","s","t","u","v","w","x","y","z">>

\* strings.ToLower on one character (ASCII letters; the model's alphabet is ASCII)
ToLowerCh(c) ==
    IF \E i \in 1..26 : UpperLetters[i] = c
    THEN LowerLetters[CHOOSE i \in 1..26 : UpperLetters[i] = c]
    ELSE c

ToLower(s) == [i \in 1..Len(s) |-> ToLowerCh(s[i])]

\* the class \s of Go's regexp (RE2): [\t\n\f\r ]
ReSpace == {" ", "\t", "\n", "\f", "\r"}

\* unicode.IsSpace, which strings.TrimSpace uses: \s plus vertical tab, NEL, NBSP
\* ("VT", "NEL" and "NBSP" stand for U+000B, U+0085 and U+00A0)
UnicodeSpace == ReSpace \cup {"VT", "NEL", "NBSP"}

Drop(s, n) == SubSeq(s, n + 1, Len(s))
Take(s, n) == SubSeq(s, 1, n)

Min(S) == CHOOSE x \in S : \A y \in S : x <= y
Max(S) == CHOOSE x \in S : \A y \in S : x >= y

\* Positions are 1-based indices into the string; Len(s) + 1 is its end.
\* number of consecutive characters of class in s from position p on
RunAt(s, p, class) ==
    IF p > Len(s) THEN 0
    ELSE LET stops == {q \in p..Len(s) : s[q] \notin class}
         IN  (IF stops = {} THEN Len(s) + 1 ELSE Min(stops)) - p

\* number of leading characters of s that lie in class
LeadingIn(s, class) == RunAt(s, 1, class)

\* number of trailing characters of s that lie in class
TrailingIn(s, class) ==
    LET others == {q \in 1..Len(s) : s[q] \notin class}
    IN  Len(s) - (IF others = {} THEN 0 ELSE Max(others))

\* strings.TrimSpace
TrimSpace(s) ==
    LET a == LeadingIn(s, UnicodeSpace)
        t == Drop(s, a)
    IN  Take(t, Len(t) - TrailingIn(t, UnicodeSpace))

\* strings.HasPrefix with ASCII case folding, as under the (?i) flag
HasPrefixFold(s, p) ==
    /\ Len(s) >= Len(p)
    /\ \A i \in 1..Len(p) : ToLowerCh(s[i]) = ToLowerCh(p[i])

HasPrefix(s, p) ==
    /\ Len(s) >= Len(p)
    /\ \A i \in 1..Len(p) : s[i] = p[i]

\* re.ReplaceAllString(s, repl) for a pattern [class]{least,}: every maximal
\* run of at least `least` characters of class is replaced by repl
RECURSIVE ReplaceRuns(_, _, _, _)
ReplaceRuns(s, class, least, repl) ==
    IF s = <<>> THEN <<>>
    ELSE LET n == RunAt(s, 1, class)
             starts == {q \in 1..Len(s) : s[q] \in class}
             m == IF starts = {} THEN Len(s) ELSE Min(starts) - 1
         IN  IF n >= least THEN repl \o ReplaceRuns(Drop(s, n), class, least, repl)
             ELSE IF n >= 1 THEN Take(s, n) \o ReplaceRuns(Drop(s, n), class, least, repl)
             ELSE Take(s, m) \o ReplaceRuns(Drop(s, m), class, least, repl)

\* concatenation of a sequence of strings
RECURSIVE Concat(_)
Concat(ss) == IF ss = <<>> THEN <<>> ELSE Head(ss) \o Concat(Tail(ss))

\* all sequences of at most n elements of S
RECURSIVE SeqsUpTo(_, _)
SeqsUpTo(S, n) ==
    IF n = 0 THEN {<<>>}
    ELSE LET shorter == SeqsUpTo(S, n - 1)
         IN  shorter \cup {Append(q, x) : q \in shorter, x \in S}

(***************************************************************************)
(* NormalizeSubject, tui/threadlist.go:24-40                               *)
(***************************************************************************)
\* the alternatives of (re|fwd|fw), each followed by ':'
SubjectPrefixes == << <<"r","e",":">>, <<"f","w","d",":">>, <<"f","w",":">> >>

\* length of the match of (?i)^(re|fwd|fw):\s* at the start of s, 0 if none
SubjectPrefixMatchLen(s) ==
    IF \E i \in 1..Len(SubjectPrefixes) : HasPrefixFold(s, SubjectPrefixes[i])
    THEN LET i == CHOOSE j \in 1..Len(SubjectPrefixes) :
                      /\ HasPrefixFold(s, SubjectPrefixes[j])
                      /\ \A k \in 1..(j - 1) : ~HasPrefixFold(s, SubjectPrefixes[k])
             n == Len(SubjectPrefixes[i])
         IN  n + LeadingIn(Drop(s, n), ReSpace)
    ELSE 0

\* the loop of lines 29-35: re.ReplaceAllString(normalized, "") until unchanged
RECURSIVE StripSubjectPrefixes(_)
StripSubjectPrefixes(s) ==
    LET n == SubjectPrefixMatchLen(s)
    IN  IF n = 0 THEN s ELSE StripSubjectPrefixes(Drop(s, n))

\* regexp.MustCompile(`\s+`).ReplaceAllString(s, " ")
CollapseWhitespace(s) == ReplaceRuns(s, ReSpace, 1, <<" ">>)

NormalizeSubject(subject) ==
    ToLower(CollapseWhitespace(TrimSpace(StripSubjectPrefixes(subject))))

\* ---- inputs of the subject runs ----
SubjectPieces ==
    { <<" ">>, <<"\t">>, <<"R","e",":">>, <<"F","W",":">>,
      <<"f","w","d",":">>, <<"H","i">>, <<"h","i">> }

Subjects == {Concat(ps) : ps \in SeqsUpTo(SubjectPieces, MaxSubjectPieces)}

\* a reply/forward prefix in some letter case, optionally followed by whitespace
ChainPrefixes ==
    { p \o w : p \in { <<"R","E",":">>, <<"r","e",":">>, <<"F","w","d",":">>,
                       <<"f","W",":">> },
               w \in { <<>>, <<" ">> } }

SubjectInit ==
    /\ subj \in Subjects
    /\ cur = subj
    /\ chain = 0
    /\ key = <<>>
    /\ key2 = <<>>
    /\ spc = "input"

\* a correspondent replies or forwards: the mail client prepends a prefix
PrependPrefix ==
    /\ spc = "input"
    /\ chain < MaxChain
    /\ \E p \in ChainPrefixes : cur' = p \o cur
    /\ chain' = chain + 1
    /\ UNCHANGED <<subj, key, key2, spc, notSubject>>

\* key := NormalizeSubject(email.Subject), threadlist.go:49
Normalize ==
    /\ spc = "input"
    /\ key' = NormalizeSubject(cur)
    /\ spc' = "normalized"
    /\ UNCHANGED <<subj, cur, chain, key2, notSubject>>

\* the key is normalized again
Renormalize ==
    /\ spc = "normalized"
    /\ key2' = NormalizeSubject(key)
    /\ spc' = "renormalized"
    /\ UNCHANGED <<subj, cur, chain, key, notSubject>>

SubjectNext == PrependPrefix \/ Normalize \/ Renormalize

\* the subject runs are not part of this specification
SubjectOff ==
    /\ subj = <<>> /\ cur = <<>> /\ chain = 0
    /\ key = <<>> /\ key2 = <<>> /\ spc = "off"

(***************************************************************************)
(* GroupEmailsBySubject, tui/threadlist.go:42-94                           *)
(***************************************************************************)
\* time.Time{}: the value time.Parse returns with an error. Instants are
\* counted in hours from 0001-01-01T00:00:00Z, the zero Time.
ZeroTime == 0

\* time.Parse(time.RFC3339, s) on the timestamps of the model's mailbox:
\* [ok, t], with t the zero Time when parsing fails
ParseRFC3339(s) ==
    CASE s = "0000-12-31T23:00:00Z"      -> [ok |-> TRUE, t |-> -1]
      [] s = "2024-01-01T10:00:00Z"      -> [ok |-> TRUE, t |-> 17733250]
      [] s = "2024-01-01T12:00:00+02:00" -> [ok |-> TRUE, t |-> 17733250]
      [] s = "2024-03-05T08:00:00Z"      -> [ok |-> TRUE, t |-> 17734784]
      [] OTHER                           -> [ok |-> FALSE, t |-> ZeroTime]

\* ti, _ := time.Parse(time.RFC3339, e.ReceivedAt): the error is discarded
ParsedTime(e) == ParseRFC3339(e.ReceivedAt).t

\* mutant of EmailBefore: the comparison reversed (newest first)
EmailBefore_Reversed(a, b) == ParsedTime(a) > ParsedTime(b)

\* the less function of sort.Slice, lines 62-66: ti.Before(tj)
EmailBefore(a, b) == ParsedTime(a) < ParsedTime(b)

\* sort.Slice(groupEmails, less): a permutation of the slice in which no later
\* element is less than an earlier one. sort.Slice is documented as not
\* stable, so every such permutation is a possible outcome.
SortSliceOutcomes(s) ==
    LET n == Len(s)
        perms == {p \in [1..n -> 1..n] : \A i, j \in 1..n : i # j => p[i] # p[j]}
    IN  { [i \in 1..n |-> s[p[i]]] : p \in
            {q \in perms : \A i, j \in 1..n :
                              i < j => ~EmailBefore(s[q[j]], s[q[i]])} }

\* mutant of FromOf: the address is used even when a display name exists
FromOf_AddressOnly(newest) ==
    IF Len(newest.From) > 0 THEN newest.From[1].Email ELSE ""

\* lines 71-78: display name of the first sender, else its address, else ""
FromOf(newest) ==
    IF Len(newest.From) > 0
    THEN IF newest.From[1].Name # ""
         THEN newest.From[1].Name
         ELSE newest.From[1].Email
    ELSE ""

\* mutant of MakeThreadItem: the display fields come from the oldest member
MakeThreadItem_Oldest(k, groupEmails) ==
    LET newest == groupEmails[1]
    IN  [ NormalizedSubject |-> k,
          Subject           |-> newest.Subject,
          From              |-> FromOf(newest),
          Date              |-> ParsedTime(newest),
          Preview           |-> newest.Preview,
          EmailCount        |-> Len(groupEmails),
          Emails            |-> groupEmails ]

\* lines 68-90: the ThreadItem built from a sorted group
MakeThreadItem(k, groupEmails) ==
    LET newest == groupEmails[Len(groupEmails)]
    IN  [ NormalizedSubject |-> k,
          Subject           |-> newest.Subject,
          From              |-> FromOf(newest),
          Date              |-> ParsedTime(newest),
          Preview           |-> newest.Preview,
          EmailCount        |-> Len(groupEmails),
          Emails            |-> groupEmails ]

\* mutant of OrderAfter: a new key is put in front
OrderAfter_Prepend(ord, grps, k) == IF k \in DOMAIN grps THEN ord ELSE <<k>> \o ord

\* lines 50-52: order = append(order, key) unless the key has a group already
OrderAfter(ord, grps, k) == IF k \in DOMAIN grps THEN ord ELSE Append(ord, k)

\* mutant of GroupsAfter: the group is overwritten instead of appended to
GroupsAfter_Overwrite(grps, k, email) ==
    [x \in DOMAIN grps \cup {k} |-> IF x = k THEN <<email>> ELSE grps[x]]

\* line 53: groups[key] = append(groups[key], email)
GroupsAfter(grps, k, email) ==
    [x \in DOMAIN grps \cup {k} |->
        IF x = k
        THEN Append(IF k \in DOMAIN grps THEN grps[k] ELSE <<>>, email)
        ELSE grps[x]]

\* ---- the mailbox the inputs are drawn from ----
MailSubjects == << <<"A">>, <<"R","E",":"," ","a">>, <<"B">> >>

MailTimes == << "", "0000-12-31T23:00:00Z", "2024-01-01T10:00:00Z",
                "2024-01-01T12:00:00+02:00", "2024-03-05T08:00:00Z" >>

MailSenders ==
    << <<>>,
       << [Name |-> "", Email |-> "a@x.org"] >>,
       << [Name |-> "Ann", Email |-> "ann@x.org"] >>,
       << [Name |-> "Bob", Email |-> "bob@x.org"], [Name |-> "", Email |-> "c@x.org"] >> >>

MailPreviews == << "Hi all", "  > see below ", "" >>

Mailbox ==
    { [ ID         |-> 5 * (si - 1) + ti,
        Subject    |-> MailSubjects[si],
        ReceivedAt |-> MailTimes[ti],
        From       |-> MailSenders[((5 * (si - 1) + ti) % 4) + 1],
        Preview    |-> MailPreviews[((si + ti) % 3) + 1] ]
      : si \in 1..Len(MailSubjects), ti \in 1..Len(MailTimes) }

\* the fetch collaborator's results: distinct messages, in any order
MailSeqs ==
    {q \in SeqsUpTo(Mailbox, MaxEmails) :
        \A i, j \in 1..Len(q) : i # j => q[i].ID # q[j].ID}

EmptyMap == [x \in {} |-> <<>>]

GroupInit ==
    /\ emails \in MailSeqs
    /\ gi = 1
    /\ groups = EmptyMap
    /\ order = <<>>
    /\ items = <<>>
    /\ gpc = "collect"

GroupOff ==
    /\ emails = <<>> /\ gi = 0 /\ groups = EmptyMap
    /\ order = <<>> /\ items = <<>> /\ gpc = "off"

\* one iteration of the loop of lines 48-54
GroupCollect ==
    /\ gpc = "collect"
    /\ gi <= Len(emails)
    /\ LET email == emails[gi]
           k == NormalizeSubject(email.Subject)
       IN  /\ order' = OrderAfter(order, groups, k)
           /\ groups' = GroupsAfter(groups, k, email)
    /\ gi' = gi + 1
    /\ UNCHANGED <<emails, items, gpc, notGroup>>

\* line 57: the first loop is over, items is allocated
GroupCollected ==
    /\ gpc = "collect"
    /\ gi > Len(emails)
    /\ gpc' = "build"
    /\ gi' = 1
    /\ UNCHANGED <<emails, groups, order, items, notGroup>>

\* one iteration of the loop of lines 58-91; the sort is in place, so the
\* map's slice is sorted too
GroupBuild ==
    /\ gpc = "build"
    /\ gi <= Len(order)
    /\ LET k == order[gi]
       IN  \E sorted \in SortSliceOutcomes(groups[k]) :
               /\ groups' = [groups EXCEPT ![k] = sorted]
               /\ items' = Append(items, MakeThreadItem(k, sorted))
    /\ gi' = gi + 1
    /\ UNCHANGED <<emails, order, gpc, notGroup>>

\* line 93: return items
GroupReturn ==
    /\ gpc = "build"
    /\ gi > Len(order)
    /\ gpc' = "done"
    /\ UNCHANGED <<emails, gi, groups, order, items, notGroup>>

GroupNext == GroupCollect \/ GroupCollected \/ GroupBuild \/ GroupReturn

(***************************************************************************)
(* cleanWhitespace, export/html.go:100-117                                 *)
(***************************************************************************)
\* regexp `[ \t]+` replaced by " " (line 102-103)
CollapseSpaces(s) == ReplaceRuns(s, {" ", "\t"}, 1, <<" ">>)

\* regexp `\n{3,}` replaced by "\n\n" (lines 106-107, and quotes.go:64)
CollapseNewlines(s) == ReplaceRuns(s, {"\n"}, 3, <<"\n", "\n">>)

\* position of the first newline at or behind p, Len(s) + 1 when there is none
LineEndAt(s, p) ==
    IF p > Len(s) THEN p
    ELSE LET nls == {q \in p..Len(s) : s[q] = "\n"}
         IN  IF nls = {} THEN Len(s) + 1 ELSE Min(nls)

\* number of leading characters of s that are not a newline
LineLen(s) == LineEndAt(s, 1) - 1

\* strings.Split(s, "\n"): always at least one line
RECURSIVE SplitLines(_)
SplitLines(s) ==
    LET n == LineLen(s)
    IN  IF n = Len(s) THEN <<s>>
        ELSE <<Take(s, n)>> \o SplitLines(Drop(s, n + 1))

\* strings.Join(lines, "\n")
RECURSIVE JoinLines(_)
JoinLines(lines) ==
    IF lines = <<>> THEN <<>>
    ELSE IF Len(lines) = 1 THEN lines[1]
    ELSE lines[1] \o <<"\n">> \o JoinLines(Tail(lines))

\* lines 110-114: every line trimmed
TrimEachLine(s) ==
    LET lines == SplitLines(s)
    IN  JoinLines([i \in 1..Len(lines) |-> TrimSpace(lines[i])])

cleanWhitespace(s) ==
    TrimSpace(TrimEachLine(CollapseNewlines(CollapseSpaces(s))))

\* ---- inputs: the text extractText or the regex fallback hands over ----
TextAlphabet == {" ", "\t", "\n", "a"}

Texts == SeqsUpTo(TextAlphabet, MaxTextLen)

WsInit ==
    /\ wsIn \in Texts
    /\ wsOut = <<>>
    /\ wsOut2 = <<>>
    /\ wpc = "input"

WsOff == wsIn = <<>> /\ wsOut = <<>> /\ wsOut2 = <<>> /\ wpc = "off"

\* text = cleanWhitespace(text), html.go:36 and html.go:97
CleanOnce ==
    /\ wpc = "input"
    /\ wsOut' = cleanWhitespace(wsIn)
    /\ wpc' = "cleaned"
    /\ UNCHANGED <<wsIn, wsOut2, notWs>>

\* the cleanup is applied to its own output
CleanAgain ==
    /\ wpc = "cleaned"
    /\ wsOut2' = cleanWhitespace(wsOut)
    /\ wpc' = "recleaned"
    /\ UNCHANGED <<wsIn, wsOut, notWs>>

WsNext == CleanOnce \/ CleanAgain

(***************************************************************************)
(* StripQuotes and StripSignature, export/quotes.go:8-92                   *)
(***************************************************************************)
\* the literal lit, letter case ignored, stands in s at position p
LitFoldAt(s, p, lit) ==
    /\ p >= 1
    /\ p + Len(lit) - 1 <= Len(s)
    /\ \A i \in 1..Len(lit) : ToLowerCh(s[p + i - 1]) = ToLowerCh(lit[i])

\* where (?m)^ matches: the start of the text and behind every newline
LineStarts(s) == {1} \cup {p + 1 : p \in {q \in 1..Len(s) : s[q] = "\n"}}

\* \s*$ under (?m) matches at p: only whitespace up to some end of line
BlankToLineEnd(s, p) == p + RunAt(s, p, ReSpace \ {"\n"}) = LineEndAt(s, p)

\* mutant of TruncateAtFirst: the text before the match is not trimmed
TruncateAtFirst_Untrimmed(s, hits) ==
    IF hits = {} THEN s ELSE Take(s, Min(hits) - 1)

\* if loc := pattern.FindStringIndex(body); loc != nil {
\*     body = strings.TrimSpace(body[:loc[0]]) }
\* where hits are the positions at which the pattern matches: loc[0] is the
\* leftmost of them
TruncateAtFirst(s, hits) ==
    IF hits = {} THEN s ELSE TrimSpace(Take(s, Min(hits) - 1))

\* attributionPattern, line 11: (?im)^On .+wrote:\s*$
AttributionAt(s, p) ==
    /\ LitFoldAt(s, p, <<"O","n"," ">>)
    /\ \E w \in (p + 4)..(LineEndAt(s, p) - 6) :
          /\ LitFoldAt(s, w, <<"w","r","o","t","e",":">>)
          /\ BlankToLineEnd(s, w + 6)

\* ^-{5,}\s*<words>\s*-{5,} of lines 17 and 20
DashedMarkerAt(s, p, words) ==
    LET d1 == RunAt(s, p, {"-"})
        w  == p + d1 + RunAt(s, p + d1, ReSpace)
        e  == w + Len(words)
        d2 == e + RunAt(s, e, ReSpace)
    IN  /\ d1 >= 5
        /\ LitFoldAt(s, w, words)
        /\ RunAt(s, d2, {"-"}) >= 5

\* forwardedPattern, line 17
ForwardedAt(s, p) ==
    DashedMarkerAt(s, p, <<"F","o","r","w","a","r","d","e","d"," ",
                           "m","e","s","s","a","g","e">>)

\* originalMsgPattern, line 20
OriginalMsgAt(s, p) ==
    DashedMarkerAt(s, p, <<"O","r","i","g","i","n","a","l"," ",
                           "M","e","s","s","a","g","e">>)

\* \s*.+\n matched from position p: the positions behind the newline that
\* ends the match, one for each way \s* can stop before a character of a
\* line that ends in a newline
HeaderLineEnds(s, p) ==
    { LineEndAt(s, p + k) + 1 :
        k \in { j \in 0..RunAt(s, p, ReSpace) :
                  /\ p + j <= Len(s)
                  /\ s[p + j] # "\n"
                  /\ LineEndAt(s, p + j) <= Len(s) } }

\* Subject:\s*.+$ at position p
SubjectHeaderAt(s, p) ==
    /\ LitFoldAt(s, p, <<"S","u","b","j","e","c","t",":">>)
    /\ \E k \in 0..RunAt(s, p + 8, ReSpace) :
          p + 8 + k <= Len(s) /\ s[p + 8 + k] # "\n"

\* outlookHeaderPattern, line 23:
\* (?im)^From:\s*.+\n(Sent|Date):\s*.+\nTo:\s*.+\n(Cc:\s*.+\n)?Subject:\s*.+$
OutlookHeaderAt(s, p) ==
    /\ LitFoldAt(s, p, <<"F","r","o","m",":">>)
    /\ \E q1 \in HeaderLineEnds(s, p + 5) :
          /\ \/ LitFoldAt(s, q1, <<"S","e","n","t",":">>)
             \/ LitFoldAt(s, q1, <<"D","a","t","e",":">>)
          /\ \E q2 \in HeaderLineEnds(s, q1 + 5) :
                /\ LitFoldAt(s, q2, <<"T","o",":">>)
                /\ \E q3 \in HeaderLineEnds(s, q2 + 3) :
                      \/ SubjectHeaderAt(s, q3)
                      \/ /\ LitFoldAt(s, q3, <<"C","c",":">>)
                         /\ \E q4 \in HeaderLineEnds(s, q3 + 3) :
                               SubjectHeaderAt(s, q4)

\* quotedLinePattern.ReplaceAllString(body, ""), lines 14 and 61:
\* (?m)^>+.*$ empties every line that starts with '>'
RemoveQuotedLines(s) ==
    LET lines == SplitLines(s)
    IN  JoinLines([i \in 1..Len(lines) |->
                     IF lines[i] # <<>> /\ lines[i][1] = ">" THEN <<>> ELSE lines[i]])

\* lines 43-45: cut at the attribution line
TruncateAtAttribution(b) ==
    TruncateAtFirst(b, {p \in LineStarts(b) : AttributionAt(b, p)})

\* lines 48-52, forwardedPattern: cut at the forwarded-message marker
TruncateAtForwarded(b) ==
    TruncateAtFirst(b, {p \in LineStarts(b) : ForwardedAt(b, p)})

\* lines 48-52, originalMsgPattern: cut at the original-message marker
TruncateAtOriginalMsg(b) ==
    TruncateAtFirst(b, {p \in LineStarts(b) : OriginalMsgAt(b, p)})

\* lines 55-57: cut at the From/Sent/To/Subject header block
TruncateAtOutlookHeader(b) ==
    TruncateAtFirst(b, {p \in LineStarts(b) : OutlookHeaderAt(b, p)})

\* StripQuotes, lines 41-67: the five steps in the order of the source
StripQuotes(body) ==
    TrimSpace(CollapseNewlines(RemoveQuotedLines(
        TruncateAtOutlookHeader(TruncateAtOriginalMsg(
            TruncateAtForwarded(TruncateAtAttribution(body)))))))

\* sigDelimiterPattern, line 29: (?m)^--\s*$
SigDelimiterAt(s, p) ==
    /\ LitFoldAt(s, p, <<"-","-">>)
    /\ BlankToLineEnd(s, p + 2)

\* sigPhrasePatterns, lines 32-38, each ^<phrase>.*$ under (?i)
SigDevices ==
    { <<"i","p","h","o","n","e">>, <<"i","p","a","d">>,
      <<"a","n","d","r","o","i","d">>, <<"m","o","b","i","l","e">>,
      <<"g","a","l","a","x","y">>, <<"p","i","x","e","l">> }

SigPhrases ==
    { <<"s","e","n","t"," ","f","r","o","m"," ","m","y"," ">> \o d : d \in SigDevices }
    \cup
    { <<"g","e","t"," ","o","u","t","l","o","o","k"," ","f","o","r"," ">>,
      <<"s","e","n","t"," ","f","r","o","m"," ","m","a","i","l"," ",
        "f","o","r"," ","w","i","n","d","o","w","s">>,
      <<"s","e","n","t"," ","f","r","o","m"," ","y","a","h","o","o"," ",
        "m","a","i","l">>,
      <<"s","e","n","t"," ","v","i","a"," ">> }

\* pattern.MatchString(line) for some pattern of sigPhrasePatterns; line is
\* one trimmed line
IsSigPhraseLine(line) == \E ph \in SigPhrases : LitFoldAt(line, 1, ph)

\* line 78: i >= len(lines)-5
SigScanLines == 5

\* the loop of lines 78-89: the index (0-based, as in the source) of the line
\* the scan stops at, -1 when it runs out without a match
RECURSIVE SigScan(_, _)
SigScan(lines, i) ==
    IF ~(i >= 0 /\ i >= Len(lines) - SigScanLines) THEN -1
    ELSE LET line == TrimSpace(lines[i + 1])
         IN  IF line = <<>> THEN SigScan(lines, i - 1)
             ELSE IF IsSigPhraseLine(line) THEN i
             ELSE SigScan(lines, i - 1)

\* lines 71-73: cut at the signature delimiter
TruncateAtSigDelimiter(b) ==
    TruncateAtFirst(b, {p \in LineStarts(b) : SigDelimiterAt(b, p)})

\* the cut with the phrase line left in
CutAtSigPhrase_KeepLine(b, lines, i) ==
    IF i >= 0 THEN TrimSpace(JoinLines(Take(lines, i + 1))) ELSE b

\* lines 76-91: cut at the signature phrase the scan stops at, if any
CutAtSigPhrase(b, lines, i) ==
    IF i >= 0 THEN TrimSpace(JoinLines(Take(lines, i))) ELSE b

ScanAndCut(b, lines) == CutAtSigPhrase(b, lines, SigScan(lines, Len(lines) - 1))

SigPhraseStep(b) == ScanAndCut(b, SplitLines(b))

\* StripSignature, lines 69-92: the delimiter, then the phrases
StripSignature(body) == SigPhraseStep(TruncateAtSigDelimiter(body))

(***************************************************************************)
(* StripQuotesFromHTML, export/quotes.go:94-109                            *)
(***************************************************************************)
\* position of the first character of class at or behind p, 0 if none
FirstOf(s, p, class) ==
    LET hits == {q \in p..Len(s) : s[q] \in class}
    IN  IF hits = {} THEN 0 ELSE Min(hits)

\* position of the first occurrence of lit (letter case ignored) at or behind
\* p, 0 if none
FindFold(s, p, lit) ==
    LET hits == {q \in p..Len(s) : LitFoldAt(s, q, lit)}
    IN  IF hits = {} THEN 0 ELSE Min(hits)

\* .*?<close> behind the '>' at position g: the position behind the first
\* close tag, 0 if there is none (or no '>': g = 0)
LazyCloseEnd(s, g, close) ==
    IF g = 0 THEN 0
    ELSE LET c == FindFold(s, g + 1, close)
         IN  IF c = 0 THEN 0 ELSE c + Len(close)

\* (?is)<blockquote[^>]*>.*?</blockquote> matched at p: the position behind
\* the match, 0 if it does not match there
BlockquoteEnd(s, p) ==
    IF LitFoldAt(s, p, <<"<","b","l","o","c","k","q","u","o","t","e">>)
    THEN LazyCloseEnd(s, FirstOf(s, p + Len(<<"<","b","l","o","c","k","q","u","o","t","e">>), {">"}), <<"<","/","b","l","o","c","k","q","u","o","t","e",">">>)
    ELSE 0

\* [^"]*gmail_quote[^"]* fills the attribute value from v up to the quote at q
GmailValue(s, v, q) ==
    LET g == FindFold(s, v, <<"g","m","a","i","l","_","q","u","o","t","e">>)
    IN  g # 0 /\ g + Len(<<"g","m","a","i","l","_","q","u","o","t","e">>) <= q

\* (appendonsend|divRplyFwdMsg) is the attribute value from v up to q
OutlookValue(s, v, q) ==
    \/ LitFoldAt(s, v, <<"a","p","p","e","n","d","o","n","s","e","n","d">>) /\ q = v + Len(<<"a","p","p","e","n","d","o","n","s","e","n","d">>)
    \/ LitFoldAt(s, v, <<"d","i","v","R","p","l","y","F","w","d","M","s","g">>) /\ q = v + Len(<<"d","i","v","R","p","l","y","F","w","d","M","s","g">>)

\* behind ATTR=" at position c: "VALUE"[^>]*>.*?</div>; the position behind
\* the match, 0 if there is none. gmail says which VALUE is asked for.
QuoteDivTail(s, c, attr, gmail) ==
    LET v == c + Len(attr)
        q == FirstOf(s, v, {"\""})
    IN  IF q # 0 /\ (IF gmail THEN GmailValue(s, v, q) ELSE OutlookValue(s, v, q))
        THEN LazyCloseEnd(s, FirstOf(s, q + 1, {">"}), <<"<","/","d","i","v",">">>)
        ELSE 0

\* <div[^>]*ATTR="VALUE"[^>]*>.*?</div> matched at p: the position behind the
\* match, 0 if it does not match there; the greedy [^>]* takes the last
\* ATTR=" from which the rest matches
QuoteDivEnd(s, p, attr, gmail) ==
    IF LitFoldAt(s, p, <<"<","d","i","v">>)
    THEN LET from == p + Len(<<"<","d","i","v">>)
             gt == FirstOf(s, from, {">"})
             last == IF gt = 0 THEN Len(s) ELSE gt
             cs == {c \in from..last :
                      /\ LitFoldAt(s, c, attr)
                      /\ QuoteDivTail(s, c, attr, gmail) # 0}
         IN  IF cs = {} THEN 0 ELSE QuoteDivTail(s, Max(cs), attr, gmail)
    ELSE 0

\* line 101: (?is)<div[^>]*class="[^"]*gmail_quote[^"]*"[^>]*>.*?</div>
GmailQuoteEnd(s, p) == QuoteDivEnd(s, p, <<"c","l","a","s","s","=","\"">>, TRUE)

\* line 105: (?is)<div[^>]*id="(appendonsend|divRplyFwdMsg)"[^>]*>.*?</div>
OutlookQuoteEnd(s, p) == QuoteDivEnd(s, p, <<"i","d","=","\"">>, FALSE)

\* re.ReplaceAllString(s, repl) from position p on: every match replaced,
\* left to right, a search resuming behind the previous match; ends[q] is the
\* position behind the match that starts at q, 0 if none starts there
RECURSIVE ReplaceMatches(_, _, _, _)
ReplaceMatches(s, p, ends, repl) ==
    LET starts == {q \in p..Len(s) : ends[q] # 0}
    IN  IF starts = {} THEN SubSeq(s, p, Len(s))
        ELSE LET q == Min(starts)
             IN  SubSeq(s, p, q - 1) \o repl \o ReplaceMatches(s, ends[q], ends, repl)

\* the matches ReplaceAllString replaces (FindAllStringIndex): where each begins
RECURSIVE MatchStarts(_, _, _)
MatchStarts(s, p, ends) ==
    LET starts == {q \in p..Len(s) : ends[q] # 0}
    IN  IF starts = {} THEN {}
        ELSE {Min(starts)} \cup MatchStarts(s, ends[Min(starts)], ends)

\* mutant of RemoveMatches: only the leftmost match is removed
RemoveMatches_FirstOnly(s, p, ends) ==
    LET starts == {q \in p..Len(s) : ends[q] # 0}
    IN  IF starts = {} THEN SubSeq(s, p, Len(s))
        ELSE SubSeq(s, p, Min(starts) - 1) \o SubSeq(s, ends[Min(starts)], Len(s))

RemoveMatches(s, p, ends) == ReplaceMatches(s, p, ends, <<>>)

\* lines 96-98
RemoveBlockquotes(h) ==
    RemoveMatches(h, 1, [p \in 1..Len(h) |-> BlockquoteEnd(h, p)])

\* lines 100-102
RemoveGmailQuotes(h) ==
    RemoveMatches(h, 1, [p \in 1..Len(h) |-> GmailQuoteEnd(h, p)])

\* lines 104-106
RemoveOutlookQuotes(h) ==
    RemoveMatches(h, 1, [p \in 1..Len(h) |-> OutlookQuoteEnd(h, p)])

\* StripQuotesFromHTML, lines 95-109
StripQuotesFromHTML(html) ==
    RemoveOutlookQuotes(RemoveGmailQuotes(RemoveBlockquotes(html)))

(***************************************************************************)
(* extractText and htmlToTextWithOptions, export/html.go:20-70             *)
(*                                                                         *)
(* A node tree is a sequence of nodes in document order (pre-order), each  *)
(* [parent, kind, data]; parent 0 is the html.DocumentNode the walk starts *)
(* from. kind is "text", "element" or "comment"; data is n.Data: the text  *)
(* of a text node, the tag of an element.                                  *)
(***************************************************************************)
\* line 49
BreakTags == {"br"}

\* line 51: a newline before the children
EntryNewlineTags == {"p", "div", "h1", "h2", "h3", "h4", "h5", "h6", "li", "tr"}

\* mutant of SkipTags: head is walked like any other element
SkipTags_NoHead == {"script", "style"}

\* line 53: not walked at all
SkipTags == {"script", "style", "head"}

\* mutant of ExitNewlineTags: the exit switch repeats the entry switch
ExitNewlineTags_AsEntry == EntryNewlineTags

\* line 66: a newline after the children
ExitNewlineTags == {"p", "div", "h1", "h2", "h3", "h4", "h5", "h6", "ul", "ol", "table"}

IsElement(tree, n) == n > 0 /\ tree[n].kind = "element"

\* n.FirstChild, c.NextSibling, ...: the children of n in document order
ChildrenOf(tree, n) ==
    LET RECURSIVE From(_)
        From(i) == IF i > Len(tree) THEN <<>>
                   ELSE IF tree[i].parent = n THEN <<i>> \o From(i + 1)
                   ELSE From(i + 1)
    IN  From(n + 1)

\* sb.WriteString(str) by the call on node n
Piece(n, str) == [node |-> n, str |-> str]

\* extractText(n, sb): the pieces the call on node n and its recursive calls
\* append to sb, in order
RECURSIVE extractText(_, _)
extractText(tree, n) ==
    LET onText == IF n > 0 /\ tree[n].kind = "text"
                  THEN <<Piece(n, tree[n].data)>> ELSE <<>>
        onEntry == IF IsElement(tree, n) /\ tree[n].data \in BreakTags \cup EntryNewlineTags
                   THEN <<Piece(n, <<"\n">>)>> ELSE <<>>
        kids == ChildrenOf(tree, n)
        RECURSIVE Walk(_)
        Walk(i) == IF i > Len(kids) THEN <<>>
                   ELSE extractText(tree, kids[i]) \o Walk(i + 1)
        onExit == IF IsElement(tree, n) /\ tree[n].data \in ExitNewlineTags
                  THEN <<Piece(n, <<"\n">>)>> ELSE <<>>
    IN  IF IsElement(tree, n) /\ tree[n].data \in SkipTags
        THEN onText
        ELSE onText \o onEntry \o Walk(1) \o onExit

\* sb.String()
RECURSIVE BuilderString(_)
BuilderString(pieces) ==
    IF pieces = <<>> THEN <<>> ELSE Head(pieces).str \o BuilderString(Tail(pieces))

\* ---- the trees html.Parse hands to the walk ----
NodeChoices ==
    {[kind |-> "text", data |-> <<"x">>]} \cup
    {[kind |-> "element", data |-> t] :
        t \in {"br", "p", "li", "ul", "span", "script", "style", "head"}}

\* a is n or an ancestor of n
RECURSIVE IsAncestorOrSelf(_, _, _)
IsAncestorOrSelf(tree, a, n) ==
    \/ a = n
    \/ n > 0 /\ IsAncestorOrSelf(tree, a, tree[n].parent)

\* document order; only elements other than br have children
WellFormedTree(tree) ==
    \A i \in 1..Len(tree) :
        /\ tree[i].parent \in 0..(i - 1)
        /\ IsAncestorOrSelf(tree, tree[i].parent, i - 1)
        /\ tree[i].parent > 0 =>
              /\ tree[tree[i].parent].kind = "element"
              /\ tree[tree[i].parent].data # "br"

RECURSIVE TreesOfSize(_)
TreesOfSize(n) ==
    IF n = 0 THEN {<<>>}
    ELSE { t \in { Append(u, [parent |-> q, kind |-> c.kind, data |-> c.data]) :
                      u \in TreesOfSize(n - 1), q \in 0..(n - 1), c \in NodeChoices } :
           WellFormedTree(t) }

Trees == UNION {TreesOfSize(n) : n \in 0..MaxNodes}

ExtractInit ==
    /\ dom \in Trees
    /\ sb = <<>>
    /\ text = <<>>
    /\ xpc = "parsed"

ExtractOff == dom = <<>> /\ sb = <<>> /\ text = <<>> /\ xpc = "off"

\* lines 31-32: var sb strings.Builder; extractText(doc, &sb)
ExtractWalk ==
    /\ xpc = "parsed"
    /\ sb' = sb \o extractText(dom, 0)
    /\ xpc' = "walked"
    /\ UNCHANGED <<dom, text, notExtract>>

\* lines 33-38: text := sb.String(); text = cleanWhitespace(text); return text
ExtractReturn ==
    /\ xpc = "walked"
    /\ text' = cleanWhitespace(BuilderString(sb))
    /\ xpc' = "done"
    /\ UNCHANGED <<dom, sb, notExtract>>

ExtractNext == ExtractWalk \/ ExtractReturn

(***************************************************************************)
(* stripHTMLRegex, export/html.go:72-98                                    *)
(***************************************************************************)
\* (?i)<TAG[^>]*>[\s\S]*?</TAG> matched at p: position behind the match or 0
TagBlockEnd(s, p, open, close) ==
    IF LitFoldAt(s, p, open)
    THEN LazyCloseEnd(s, FirstOf(s, p + Len(open), {">"}), close)
    ELSE 0

\* (?i)<br\s*/?> matched at p: position behind the match or 0
BrTagEnd(s, p) ==
    IF LitFoldAt(s, p, <<"<","b","r">>)
    THEN LET q == p + 3 + RunAt(s, p + 3, ReSpace)
             r == IF q <= Len(s) /\ s[q] = "/" THEN q + 1 ELSE q
         IN  IF r <= Len(s) /\ s[r] = ">" THEN r + 1 ELSE 0
    ELSE 0

\* the alternatives of (p|div|h[1-6]|li|tr)
BlockCloseNames ==
    { <<"p">>, <<"d","i","v">>, <<"l","i">>, <<"t","r">> } \cup
    { <<"h", d>> : d \in {"1", "2", "3", "4", "5", "6"} }

\* (?i)</(p|div|h[1-6]|li|tr)> matched at p: position behind the match or 0
BlockCloseEnd(s, p) ==
    IF \E n \in BlockCloseNames : LitFoldAt(s, p, <<"<","/">> \o n \o <<">">>)
    THEN LET n == CHOOSE m \in BlockCloseNames : LitFoldAt(s, p, <<"<","/">> \o m \o <<">">>)
         IN  p + Len(n) + 3
    ELSE 0

\* <[^>]*> matched at p: position behind the match or 0
AnyTagEnd(s, p) ==
    IF s[p] = "<"
    THEN LET g == FirstOf(s, p + 1, {">"}) IN IF g = 0 THEN 0 ELSE g + 1
    ELSE 0

\* strings.ReplaceAll(s, old, new)
ReplaceAllLit(s, old, new) ==
    ReplaceMatches(s, 1, [p \in 1..Len(s) |->
                            IF HasPrefix(Drop(s, p - 1), old) THEN p + Len(old) ELSE 0],
                   new)

\* lines 74-77: the script blocks, then the style blocks
RemoveScriptBlocks(t) ==
    RemoveMatches(t, 1, [p \in 1..Len(t) |-> TagBlockEnd(t, p, <<"<","s","c","r","i","p","t">>, <<"<","/","s","c","r","i","p","t",">">>)])

RemoveStyleBlocks(t) ==
    RemoveMatches(t, 1, [p \in 1..Len(t) |-> TagBlockEnd(t, p, <<"<","s","t","y","l","e">>, <<"<","/","s","t","y","l","e",">">>)])

\* lines 80-83
BrToNewline(t) ==
    ReplaceMatches(t, 1, [p \in 1..Len(t) |-> BrTagEnd(t, p)], <<"\n">>)

BlockCloseToNewline(t) ==
    ReplaceMatches(t, 1, [p \in 1..Len(t) |-> BlockCloseEnd(t, p)], <<"\n">>)

\* lines 86-87
RemoveTags(t) ==
    RemoveMatches(t, 1, [p \in 1..Len(t) |-> AnyTagEnd(t, p)])

\* lines 90-95: one strings.ReplaceAll after the other
DecodeEntities(t) ==
    ReplaceAllLit(ReplaceAllLit(ReplaceAllLit(ReplaceAllLit(ReplaceAllLit(ReplaceAllLit(
        t, <<"&","n","b","s","p",";">>, <<" ">>), <<"&","a","m","p",";">>, <<"&">>), <<"&","l","t",";">>, <<"<">>), <<"&","g","t",";">>, <<">">>),
        <<"&","q","u","o","t",";">>, <<"\"">>), <<"&","#","3","9",";">>, <<"'">>)

\* mutant of stripHTMLRegex: the character references are left as they are
stripHTMLRegex_NoEntities(s0) ==
    cleanWhitespace(RemoveTags(BlockCloseToNewline(BrToNewline(
        RemoveStyleBlocks(RemoveScriptBlocks(s0))))))

stripHTMLRegex(s0) ==
    cleanWhitespace(DecodeEntities(RemoveTags(BlockCloseToNewline(BrToNewline(
        RemoveStyleBlocks(RemoveScriptBlocks(s0)))))))

(***************************************************************************)
(* html.Parse (golang.org/x/net/html), called at export/html.go:25         *)
(*                                                                         *)
(* The tokenizer and the tree construction of the HTML5 parsing algorithm, *)
(* as far as the markup of the model's bodies needs them: text with the    *)
(* character references of ParseEntities, a '<' that opens no tag, start   *)
(* and end tags of p, div, blockquote, br, of script and style with their  *)
(* raw text, and of elements that are neither special nor formatting,      *)
(* attributes with double-quoted values. The result is a node tree in the  *)
(* form extractText walks.                                                 *)
(***************************************************************************)
AsciiLetters ==
    {UpperLetters[i] : i \in 1..26} \cup {LowerLetters[i] : i \in 1..26}

\* a tag opens at p: '<' or '</' followed by a letter
TagOpensAt(s, p) ==
    /\ p + 1 <= Len(s)
    /\ s[p] = "<"
    /\ \/ s[p + 1] \in AsciiLetters
       \/ s[p + 1] = "/" /\ p + 2 <= Len(s) /\ s[p + 2] \in AsciiLetters

\* position of the '>' that ends the tag whose name starts at p, a '>' inside
\* a double-quoted attribute value not counting; 0 when the input ends first
RECURSIVE TagCloseAt(_, _)
TagCloseAt(s, p) ==
    LET q == FirstOf(s, p, {">", "\""})
    IN  IF q = 0 THEN 0
        ELSE IF s[q] = ">" THEN q
        ELSE LET r == FirstOf(s, q + 1, {"\""})
             IN  IF r = 0 THEN 0 ELSE TagCloseAt(s, r + 1)

\* the character references the text of the model's bodies can hold
ParseEntities ==
    << [ref |-> <<"&","l","t",";">>, char |-> "<"], [ref |-> <<"&","g","t",";">>, char |-> ">"],
       [ref |-> <<"&","a","m","p",";">>, char |-> "&"], [ref |-> <<"&","q","u","o","t",";">>, char |-> "\""],
       [ref |-> <<"&","#","3","9",";">>, char |-> "'"], [ref |-> <<"&","n","b","s","p",";">>, char |-> "NBSP"] >>

\* html.UnescapeString on the text of a text token
RECURSIVE UnescapeText(_)
UnescapeText(t) ==
    LET a == FirstOf(t, 1, {"&"})
    IN  IF a = 0 THEN t
        ELSE LET rest == Drop(t, a - 1)
                 hit == {i \in 1..Len(ParseEntities) : HasPrefix(rest, ParseEntities[i].ref)}
             IN  IF hit = {}
                 THEN Take(t, a) \o UnescapeText(Drop(t, a))
                 ELSE LET e == ParseEntities[CHOOSE i \in hit : TRUE]
                      IN  Take(t, a - 1) \o <<e.char>>
                            \o UnescapeText(Drop(t, a - 1 + Len(e.ref)))

\* the element names the tree construction tells apart, spelled out; a name
\* outside the table is an ordinary element ("other")
TagSpellings ==
    << [tag |-> "p", letters |-> <<"p">>], [tag |-> "div", letters |-> <<"d","i","v">>],
       [tag |-> "blockquote", letters |-> <<"b","l","o","c","k","q","u","o","t","e">>], [tag |-> "br", letters |-> <<"b","r">>],
       [tag |-> "span", letters |-> <<"s","p","a","n">>],
       [tag |-> "script", letters |-> <<"s","c","r","i","p","t">>], [tag |-> "style", letters |-> <<"s","t","y","l","e">>] >>

TagNamed(letters) ==
    LET hit == {i \in 1..Len(TagSpellings) : TagSpellings[i].letters = letters}
    IN  IF hit = {} THEN "other" ELSE TagSpellings[CHOOSE i \in hit : TRUE].tag

\* the elements whose content the tokenizer hands over as raw text
RawTextTags == {"script", "style"}

\* the raw text behind the start tag that ends at g, up to the matching end
\* tag (or the end of the input), as a text token; none when it is empty
RawTextToken(s, g, letters) ==
    LET c == FindFold(s, g + 1, <<"<", "/">> \o letters)
        e == IF c = 0 THEN Len(s) + 1 ELSE c
    IN  IF e = g + 1 THEN <<>>
        ELSE << [type |-> "text", data |-> SubSeq(s, g + 1, e - 1)] >>

\* the position the tokenizer goes on from behind that raw text
RawTextEnd(s, g, letters) ==
    LET c == FindFold(s, g + 1, <<"<", "/">> \o letters)
    IN  IF c = 0 THEN Len(s) + 1 ELSE c

\* the tokens of s from position p on: [type, data] with type "text", "start"
\* or "end"; an unfinished tag at the end of the input yields no token
RECURSIVE Tokenize(_, _)
Tokenize(s, p) ==
    IF p > Len(s) THEN <<>>
    ELSE IF TagOpensAt(s, p)
    THEN LET isEnd == s[p + 1] = "/"
             n == IF isEnd THEN p + 2 ELSE p + 1
             nameLen == RunAt(s, n, AsciiLetters \cup {"1", "2", "3", "4", "5", "6"})
             g == TagCloseAt(s, n + nameLen)
             letters == ToLower(SubSeq(s, n, n + nameLen - 1))
         IN  IF g = 0 THEN <<>>
             ELSE IF ~isEnd /\ TagNamed(letters) \in RawTextTags
             THEN << [type |-> "start", data |-> TagNamed(letters)] >>
                    \o RawTextToken(s, g, letters)
                    \o Tokenize(s, RawTextEnd(s, g, letters))
             ELSE << [type |-> IF isEnd THEN "end" ELSE "start",
                      data |-> TagNamed(letters)] >>
                    \o Tokenize(s, g + 1)
    ELSE LET opens == {q \in (p + 1)..Len(s) : TagOpensAt(s, q)}
             e == IF opens = {} THEN Len(s) + 1 ELSE Min(opens)
         IN  << [type |-> "text", data |-> UnescapeText(SubSeq(s, p, e - 1))] >>
               \o Tokenize(s, e)

\* the tree construction state: the nodes made so far, the stack of open
\* elements (indices into nodes, the current node last) and whether the body
\* element has been made
ParserStart == [nodes |-> <<>>, open |-> <<>>, inBody |-> FALSE]

HtmlWhitespace == {" ", "\t", "\r", "\n", "\f"}

ElementNode(par, tag) == [parent |-> par, kind |-> "element", data |-> tag]

\* the implied <html><head> that precede the first content; the head
\* element stays the current node until the body is made
WithHead(st) ==
    IF st.nodes # <<>> THEN st
    ELSE [nodes |-> << ElementNode(0, "html"), ElementNode(1, "head") >>,
          open |-> <<1, 2>>, inBody |-> FALSE]

\* the implied </head><body> that precede the first content of the body
WithBody(st) ==
    IF st.inBody THEN st
    ELSE [nodes |-> Append(WithHead(st).nodes, ElementNode(1, "body")),
          open |-> <<1, Len(WithHead(st).nodes) + 1>>, inBody |-> TRUE]

CurrentNode(st) == st.open[Len(st.open)]

\* p.addChild / p.addElement: a new last child of the current node; an
\* element becomes the current node
InsertNode(st, kind, data, push) ==
    LET n == Len(st.nodes) + 1
        node == [parent |-> CurrentNode(st), kind |-> kind, data |-> data]
    IN  [nodes |-> Append(st.nodes, node),
         open |-> IF push THEN Append(st.open, n) ELSE st.open,
         inBody |-> st.inBody]

\* the open element named tag nearest to the current node, 0 if none
OpenIndexOf(st, tag) ==
    LET hits == {i \in 1..Len(st.open) : st.nodes[st.open[i]].data = tag}
    IN  IF hits = {} THEN 0 ELSE Max(hits)

\* pop the stack of open elements until the element at stack index i is popped
PopThrough(st, i) == [st EXCEPT !.open = Take(@, i - 1)]

\* "close a p element" when one is in button scope
ClosePIfOpen(st) ==
    LET i == OpenIndexOf(st, "p")
    IN  IF i = 0 THEN st ELSE PopThrough(st, i)

\* the elements of the model's markup that the algorithm calls special
SpecialTags == {"html", "body", "p", "div", "blockquote", "br"}

\* the "any other end tag" steps: walk down from the current node
RECURSIVE EndTagOther(_, _, _)
EndTagOther(st, tag, i) ==
    IF i = 0 THEN st
    ELSE IF st.nodes[st.open[i]].data = tag THEN PopThrough(st, i)
    ELSE IF st.nodes[st.open[i]].data \in SpecialTags THEN st
    ELSE EndTagOther(st, tag, i - 1)

\* the current node is a script or style element being filled
InRawText(st) ==
    st.open # <<>> /\ st.nodes[st.open[Len(st.open)]].data \in RawTextTags

\* a text token before the body exists: whitespace ahead of everything is
\* dropped, whitespace behind a script or style of the head goes to the head
\* element, and the first other character opens the body
TextBeforeBody(st, data) ==
    LET lead == LeadingIn(data, HtmlWhitespace)
        kept == IF st.nodes = <<>> \/ lead = 0 THEN st
                ELSE InsertNode(st, "text", Take(data, lead), FALSE)
    IN  IF lead = Len(data) THEN kept
        ELSE InsertNode(WithBody(kept), "text", Drop(data, lead), FALSE)

\* one token in the "in body" insertion mode (and, before the body exists,
\* in the modes that lead to it)
TreeStep(st, tok) ==
    IF InRawText(st)
    THEN IF tok.type = "text" THEN InsertNode(st, "text", tok.data, FALSE)
         ELSE PopThrough(st, Len(st.open))
    ELSE IF tok.type = "text"
    THEN IF st.inBody THEN InsertNode(st, "text", tok.data, FALSE)
         ELSE TextBeforeBody(st, tok.data)
    ELSE IF tok.type = "start"
    THEN IF tok.data \in RawTextTags
         THEN InsertNode(IF st.inBody THEN st ELSE WithHead(st), "element", tok.data, TRUE)
         ELSE IF tok.data \in {"p", "div", "blockquote"}
         THEN InsertNode(ClosePIfOpen(WithBody(st)), "element", tok.data, TRUE)
         ELSE IF tok.data = "br"
         THEN InsertNode(WithBody(st), "element", tok.data, FALSE)
         ELSE InsertNode(WithBody(st), "element", tok.data, TRUE)
    ELSE IF ~st.inBody THEN st
    ELSE IF tok.data = "p"
    THEN IF OpenIndexOf(st, "p") = 0
         THEN InsertNode(st, "element", "p", FALSE)
         ELSE ClosePIfOpen(st)
    ELSE IF tok.data \in {"div", "blockquote"}
    THEN LET i == OpenIndexOf(st, tok.data)
         IN  IF i = 0 THEN st ELSE PopThrough(st, i)
    ELSE EndTagOther(st, tok.data, Len(st.open))

RECURSIVE TreeBuild(_, _)
TreeBuild(st, toks) ==
    IF toks = <<>> THEN st ELSE TreeBuild(TreeStep(st, Head(toks)), Tail(toks))

\* html.Parse(strings.NewReader(htmlStr)): [err, doc]. Reading from a string
\* never fails and the markup of the model stays within every limit of the
\* library, so err is FALSE here. An input without content still gets its
\* html, head and body elements.
ParseHTML(h) ==
    [err |-> FALSE, doc |-> WithBody(TreeBuild(ParserStart, Tokenize(h, 1))).nodes]

(***************************************************************************)
(* htmlToTextWithOptions, export/html.go:20-39, and CleanBody              *)
(***************************************************************************)
\* lines 25-38: the fallback on a parse error, else the walk and the cleanup
TextOfParsed(parsed, h) ==
    IF parsed.err
    THEN stripHTMLRegex(h)
    ELSE cleanWhitespace(BuilderString(extractText(parsed.doc, 0)))

ParseAndExtract(h) == TextOfParsed(ParseHTML(h), h)

htmlToTextWithOptions(htmlStr, stripQuotes) ==
    ParseAndExtract(IF stripQuotes THEN StripQuotesFromHTML(htmlStr) ELSE htmlStr)

HTMLToText(htmlStr) == htmlToTextWithOptions(htmlStr, FALSE)

HTMLToTextStripQuotes(htmlStr) == htmlToTextWithOptions(htmlStr, TRUE)

\* strings.Contains(body, "<") && strings.Contains(body, ">")
LooksLikeHTML(body) ==
    /\ \E i \in 1..Len(body) : body[i] = "<"
    /\ \E i \in 1..Len(body) : body[i] = ">"

\* lines 88-95: markup is converted to text, anything else is taken as it is
CleanMarkup(body, opts) ==
    IF LooksLikeHTML(body)
    THEN IF opts.StripQuotes
         THEN HTMLToTextStripQuotes(body)
         ELSE HTMLToText(body)
    ELSE body

\* lines 97-100
CleanQuotes(body, opts) == IF opts.StripQuotes THEN StripQuotes(body) ELSE body

\* lines 102-105
CleanSignature(body, opts) ==
    IF opts.StripSignatures THEN StripSignature(body) ELSE body

\* the two strippers the other way round
CleanBody_SignatureFirst(body, opts) ==
    CleanQuotes(CleanSignature(CleanMarkup(body, opts), opts), opts)

\* CleanBody(body, opts), opts = [StripQuotes, StripSignatures]
CleanBody(body, opts) ==
    CleanSignature(CleanQuotes(CleanMarkup(body, opts), opts), opts)

\* ---- the runs of CleanBody ----
NoOptions == [StripQuotes |-> FALSE, StripSignatures |-> FALSE]

\* the four configurations of the two flags
OptionSets == [StripQuotes : BOOLEAN, StripSignatures : BOOLEAN]

\* what the bodies are put together from: text, blanks and line breaks, a
\* quoted line, a signature phrase, the signature delimiter, markup, an
\* escaped tag, a quote block
BodyPieces ==
    { <<"x">>,
      <<" ">>,
      <<"\n">>,
      <<">", "q">>,
      <<"S", "e", "n", "t", " ", "v", "i", "a", " ", "a">>,
      <<"-", "-">>,
      <<"<", "b", "r", ">">>,
      <<"<", "p", ">">>,
      <<"<", "/", "p", ">">>,
      <<"&", "l", "t", ";", "p", "&", "g", "t", ";">>,
      <<"<", "b", "l", "o", "c", "k", "q", "u", "o", "t", "e", ">">>,
      <<"<", "/", "b", "l", "o", "c", "k", "q", "u", "o", "t", "e", ">">> }

RECURSIVE BodiesOfPieces(_)
BodiesOfPieces(n) ==
    IF n = 0 THEN {<<>>}
    ELSE {<<>>} \cup { b \o q : b \in BodiesOfPieces(n - 1), q \in BodyPieces }

Bodies == BodiesOfPieces(MaxBodyPieces)

CleanInit ==
    /\ mailBody \in Bodies
    /\ options \in OptionSets
    /\ cleaned = <<>> /\ recleaned = <<>> /\ cpc = "input"

CleanOff ==
    /\ mailBody = <<>> /\ options = NoOptions
    /\ cleaned = <<>> /\ recleaned = <<>> /\ cpc = "off"

\* getCleanBody: a first call of CleanBody on the body of an email
CleanFirst ==
    /\ cpc = "input"
    /\ cleaned' = CleanBody(mailBody, options)
    /\ cpc' = "cleaned"
    /\ UNCHANGED <<mailBody, options, recleaned>>
    /\ UNCHANGED notClean

\* a caller cleans the cleaned body again, with the same options
CleanSecond ==
    /\ cpc = "cleaned"
    /\ recleaned' = CleanBody(cleaned, options)
    /\ cpc' = "recleaned"
    /\ UNCHANGED <<mailBody, options, cleaned>>
    /\ UNCHANGED notClean

CleanNext == CleanFirst \/ CleanSecond

\* ---- the runs of htmlToTextWithOptions on markup ----
\* what the markup is put together from: text, a blank, a paragraph, a line
\* break, a character reference, the three kinds of quote region, a script
MarkupPieces ==
    { <<"x">>, <<" ">>, <<"<","p",">","y","<","/","p",">">>, <<"<","b","r",">">>, <<"&","a","m","p",";">>,
      <<"<","b","l","o","c","k","q","u","o","t","e",">","q","<","/","b","l","o","c","k","q","u","o","t","e",">">>,
      <<"<","d","i","v"," ","c","l","a","s","s","=","\"","g","m","a","i","l","_","q","u","o","t","e","\"",">","g","<","/","d","i","v",">">>,
      <<"<","d","i","v"," ","i","d","=","\"","a","p","p","e","n","d","o","n","s","e","n","d","\"",">","o","<","/","d","i","v",">">>,
      <<"<","s","c","r","i","p","t",">","s","<","/","s","c","r","i","p","t",">">> }

RECURSIVE MarkupsOfPieces(_)
MarkupsOfPieces(n) ==
    IF n = 0 THEN {<<>>}
    ELSE {<<>>} \cup { b \o q : b \in MarkupsOfPieces(n - 1), q \in MarkupPieces }

Markups == MarkupsOfPieces(MaxMarkupPieces)

\* the position behind the match of quote pattern k (blockquote, gmail_quote
\* div, Outlook div, in the order of quotes.go:96-106) that begins at p, or 0
QuotePatternEnd(k, s, p) ==
    IF k = 1 THEN BlockquoteEnd(s, p)
    ELSE IF k = 2 THEN GmailQuoteEnd(s, p)
    ELSE OutlookQuoteEnd(s, p)

QuotePatternEnds(k, s) == [p \in 1..Len(s) |-> QuotePatternEnd(k, s, p)]

ConvInit ==
    /\ hIn \in Markups
    /\ hFlag \in BOOLEAN
    /\ hStr = hIn
    /\ hMid = <<>> /\ hCuts = <<>>
    /\ hErr = FALSE /\ hDoc = <<>> /\ hOut = <<>>
    /\ hpc = "input"

ConvOff ==
    /\ hIn = <<>> /\ hFlag = FALSE /\ hStr = <<>>
    /\ hMid = <<>> /\ hCuts = <<>>
    /\ hErr = FALSE /\ hDoc = <<>> /\ hOut = <<>>
    /\ hpc = "off"

\* the markup StripQuotesFromHTML holds before pattern 1, 2, 3 and at its end
StripStages(h) ==
    << h, RemoveBlockquotes(h), RemoveGmailQuotes(RemoveBlockquotes(h)),
       StripQuotesFromHTML(h) >>

\* html.go:21-23: if stripQuotes { htmlStr = StripQuotesFromHTML(htmlStr) }
ConvStripQuotes ==
    /\ hpc = "input"
    /\ hStr' = IF hFlag THEN StripQuotesFromHTML(hStr) ELSE hStr
    /\ hMid' = IF hFlag THEN StripStages(hStr) ELSE <<>>
    /\ hCuts' = IF hFlag
                THEN [k \in 1..3 |-> MatchStarts(StripStages(hStr)[k], 1,
                                        QuotePatternEnds(k, StripStages(hStr)[k]))]
                ELSE <<>>
    /\ hpc' = "stripped"
    /\ UNCHANGED <<hIn, hFlag, hErr, hDoc, hOut>>
    /\ UNCHANGED notConv

\* html.go:25, err == nil: doc, err := html.Parse(strings.NewReader(htmlStr))
ConvParse ==
    /\ hpc = "stripped"
    /\ hErr' = ParseHTML(hStr).err
    /\ hDoc' = ParseHTML(hStr).doc
    /\ hpc' = "parsed"
    /\ UNCHANGED <<hIn, hFlag, hStr, hMid, hCuts, hOut>>
    /\ UNCHANGED notConv

\* html.go:25, err != nil: whether the library gives up on a markup is the
\* library's to decide (its limits lie beyond the tree construction modelled
\* above), so a failure is let happen on any markup
ConvParseFails ==
    /\ hpc = "stripped"
    /\ hErr' = TRUE
    /\ hpc' = "failed"
    /\ UNCHANGED <<hIn, hFlag, hStr, hMid, hCuts, hDoc, hOut>>
    /\ UNCHANGED notConv

\* html.go:26-29: return stripHTMLRegex(htmlStr)
ConvFallback ==
    /\ hpc = "failed"
    /\ hOut' = TextOfParsed([err |-> hErr, doc |-> hDoc], hStr)
    /\ hpc' = "done"
    /\ UNCHANGED <<hIn, hFlag, hStr, hMid, hCuts, hErr, hDoc>>
    /\ UNCHANGED notConv

\* html.go:31-38: the walk, the cleanup, return text
ConvExtract ==
    /\ hpc = "parsed"
    /\ hOut' = TextOfParsed([err |-> hErr, doc |-> hDoc], hStr)
    /\ hpc' = "done"
    /\ UNCHANGED <<hIn, hFlag, hStr, hMid, hCuts, hErr, hDoc>>
    /\ UNCHANGED notConv

ConvNext ==
    ConvStripQuotes \/ ConvParse \/ ConvParseFails \/ ConvFallback \/ ConvExtract

\* ---- the runs of StripQuotes ----
\* what the bodies are put together from: a line of text, a blank, an
\* attribution line, the two dashed markers, a quoted line, a header block
QuotePieces ==
    { <<"x","\n">>, <<" ">>, <<"O","n"," ","a"," ","w","r","o","t","e",":","\n">>,
      <<"-","-","-","-","-","O","r","i","g","i","n","a","l"," ","M","e","s","s","a","g","e","-","-","-","-","-","\n">>,
      <<"-","-","-","-","-","F","o","r","w","a","r","d","e","d"," ","m","e","s","s","a","g","e","-","-","-","-","-","\n">>,
      <<">","q","\n">>,
      <<"F","r","o","m",":"," ","a","\n","S","e","n","t",":"," ","b","\n","T","o",":"," ","c","\n","S","u","b","j","e","c","t",":"," ","d","\n">> }

\* a reply as mail clients write it: text, an attribution line, a quoted line
QuotedReply ==
    <<
       "B","o","d","y"," ","t","e","x","t","\n","O","n"," ","J","a","n",
       " ","1",","," ","2","0","2","4"," ","a","t"," ","1","0",":","0",
       "0"," ","A","M"," ","J","o","h","n"," ","<","j","@","x",".","c",
       "o","m",">"," ","w","r","o","t","e",":","\n",">"," ","q","u","o",
       "t","e","d" >>

RECURSIVE QuoteBodiesOfPieces(_)
QuoteBodiesOfPieces(n) ==
    IF n = 0 THEN {<<>>}
    ELSE {<<>>} \cup { b \o q : b \in QuoteBodiesOfPieces(n - 1), q \in QuotePieces }

QuoteBodies == QuoteBodiesOfPieces(MaxQuotePieces) \cup {QuotedReply}

QuoteInit ==
    /\ qBody \in QuoteBodies
    /\ qText = qBody
    /\ qTrace = <<>> /\ qOut = <<>>
    /\ qpc = "attribution"

QuoteOff ==
    /\ qBody = <<>> /\ qText = <<>>
    /\ qTrace = <<>> /\ qOut = <<>>
    /\ qpc = "off"

\* quotes.go:43-45
QuoteAttribution ==
    /\ qpc = "attribution"
    /\ qText' = TruncateAtAttribution(qText)
    /\ qTrace' = Append(qTrace, TruncateAtAttribution(qText))
    /\ qpc' = "forwarded"
    /\ UNCHANGED <<qBody, qOut>>
    /\ UNCHANGED notQuote

\* quotes.go:48-52, first round of the loop
QuoteForwarded ==
    /\ qpc = "forwarded"
    /\ qText' = TruncateAtForwarded(qText)
    /\ qTrace' = Append(qTrace, TruncateAtForwarded(qText))
    /\ qpc' = "original"
    /\ UNCHANGED <<qBody, qOut>>
    /\ UNCHANGED notQuote

\* quotes.go:48-52, second round of the loop
QuoteOriginalMsg ==
    /\ qpc = "original"
    /\ qText' = TruncateAtOriginalMsg(qText)
    /\ qTrace' = Append(qTrace, TruncateAtOriginalMsg(qText))
    /\ qpc' = "header"
    /\ UNCHANGED <<qBody, qOut>>
    /\ UNCHANGED notQuote

\* quotes.go:55-57
QuoteOutlookHeader ==
    /\ qpc = "header"
    /\ qText' = TruncateAtOutlookHeader(qText)
    /\ qTrace' = Append(qTrace, TruncateAtOutlookHeader(qText))
    /\ qpc' = "lines"
    /\ UNCHANGED <<qBody, qOut>>
    /\ UNCHANGED notQuote

\* quotes.go:60-66: the quoted lines, the blank lines, return TrimSpace(body)
QuoteLines ==
    /\ qpc = "lines"
    /\ qText' = CollapseNewlines(RemoveQuotedLines(qText))
    /\ qOut' = TrimSpace(CollapseNewlines(RemoveQuotedLines(qText)))
    /\ qpc' = "done"
    /\ UNCHANGED <<qBody, qTrace>>
    /\ UNCHANGED notQuote

QuoteNext ==
    \/ QuoteAttribution \/ QuoteForwarded \/ QuoteOriginalMsg
    \/ QuoteOutlookHeader \/ QuoteLines

\* ---- the runs of StripSignature ----
\* what the bodies are put together from: a line of text, a blank line, five
\* blank lines, a delimiter line, a client-signature line, a blank, a name
SigPieces ==
    { <<"x","\n">>, <<"\n">>, <<"\n","\n","\n","\n","\n">>, <<"-","-","\n">>, <<"S","e","n","t"," ","v","i","a"," ","a","\n">>, <<" ">>, <<"s","i","g">> }

\* a delimiter signature and a client signature under a greeting
SigExamples ==
    { <<"H","e","l","l","o","\n","\n","-","-","\n","J","o","h","n"," ","D","o","e">>, <<"H","e","l","l","o","\n","\n","S","e","n","t"," ","f","r","o","m"," ","m","y"," ","i","P","h","o","n","e">> }

RECURSIVE SigBodiesOfPieces(_)
SigBodiesOfPieces(n) ==
    IF n = 0 THEN {<<>>}
    ELSE {<<>>} \cup { b \o q : b \in SigBodiesOfPieces(n - 1), q \in SigPieces }

SigBodies == SigBodiesOfPieces(MaxSigPieces) \cup SigExamples

SigInit ==
    /\ sigBody \in SigBodies
    /\ sigText = sigBody
    /\ sigLines = <<>> /\ sigI = 0 /\ sigSeen = <<>>
    /\ sigOut = <<>>
    /\ sigpc = "delimiter"

SigOff ==
    /\ sigBody = <<>> /\ sigText = <<>>
    /\ sigLines = <<>> /\ sigI = 0 /\ sigSeen = <<>>
    /\ sigOut = <<>>
    /\ sigpc = "off"

\* quotes.go:71-78: the delimiter check, strings.Split, i := len(lines) - 1
SigDelimiter ==
    /\ sigpc = "delimiter"
    /\ sigText' = TruncateAtSigDelimiter(sigText)
    /\ sigLines' = SplitLines(TruncateAtSigDelimiter(sigText))
    /\ sigI' = Len(SplitLines(TruncateAtSigDelimiter(sigText))) - 1
    /\ sigpc' = "scan"
    /\ UNCHANGED <<sigBody, sigSeen, sigOut>>
    /\ UNCHANGED notSig

\* quotes.go:78: the loop goes on while i >= 0 && i >= len(lines)-5
SigInLoop == sigI >= 0 /\ sigI >= Len(sigLines) - SigScanLines

\* quotes.go:79-82: line == "", continue
SigSkipBlank ==
    /\ sigpc = "scan" /\ SigInLoop
    /\ TrimSpace(sigLines[sigI + 1]) = <<>>
    /\ sigSeen' = Append(sigSeen, sigI)
    /\ sigI' = sigI - 1
    /\ UNCHANGED <<sigBody, sigText, sigLines, sigOut, sigpc>>
    /\ UNCHANGED notSig

\* quotes.go:83-88: no pattern matches the line, i--
SigNoMatch ==
    /\ sigpc = "scan" /\ SigInLoop
    /\ TrimSpace(sigLines[sigI + 1]) # <<>>
    /\ ~IsSigPhraseLine(TrimSpace(sigLines[sigI + 1]))
    /\ sigSeen' = Append(sigSeen, sigI)
    /\ sigI' = sigI - 1
    /\ UNCHANGED <<sigBody, sigText, sigLines, sigOut, sigpc>>
    /\ UNCHANGED notSig

\* quotes.go:83-87: a pattern matches the line, return the lines before it
SigMatch ==
    /\ sigpc = "scan" /\ SigInLoop
    /\ TrimSpace(sigLines[sigI + 1]) # <<>>
    /\ IsSigPhraseLine(TrimSpace(sigLines[sigI + 1]))
    /\ sigSeen' = Append(sigSeen, sigI)
    /\ sigOut' = CutAtSigPhrase(sigText, sigLines, sigI)
    /\ sigpc' = "done"
    /\ UNCHANGED <<sigBody, sigText, sigLines, sigI>>
    /\ UNCHANGED notSig

\* quotes.go:91: the loop is over, return body
SigReturn ==
    /\ sigpc = "scan" /\ ~SigInLoop
    /\ sigOut' = sigText
    /\ sigpc' = "done"
    /\ UNCHANGED <<sigBody, sigText, sigLines, sigI, sigSeen>>
    /\ UNCHANGED notSig

SigNext == SigDelimiter \/ SigSkipBlank \/ SigNoMatch \/ SigMatch \/ SigReturn

\* ---- the runs of getCleanBody ----
\* the part ids of the emails, the values a body part can have (none, text,
\* markup), the previews
PartIDs == {"1", "2"}

BodyValueTexts == { <<>>, <<"t">>, <<"<","p",">","h","<","/","p",">">> }

Previews == { <<>>, <<"p","v">> }

\* []BodyPart of up to n parts
RECURSIVE BodyPartLists(_)
BodyPartLists(n) ==
    IF n = 0 THEN {<<>>}
    ELSE {<<>>} \cup { Append(l, [PartID |-> i]) : l \in BodyPartLists(n - 1), i \in PartIDs }

\* map[string]BodyValue: some of the part ids have a value
BodyValueMaps ==
    UNION { [D -> [Value : BodyValueTexts]] : D \in SUBSET PartIDs }

\* jmap.Email, the fields GetBodyText reads
Emails ==
    [ TextBody : BodyPartLists(MaxParts), HTMLBody : BodyPartLists(MaxParts),
      BodyValues : BodyValueMaps, Preview : Previews ]

NoEmail == [TextBody |-> <<>>, HTMLBody |-> <<>>, BodyValues |-> <<>>, Preview |-> <<>>]

BodyInit ==
    /\ eml \in Emails
    /\ bodyOpts \in OptionSets
    /\ partIx = 1
    /\ bodyText = <<>> /\ cleanBody = <<>>
    /\ bpc = "text"

BodyOff ==
    /\ eml = NoEmail
    /\ bodyOpts = NoOptions
    /\ partIx = 0
    /\ bodyText = <<>> /\ cleanBody = <<>>
    /\ bpc = "off"

\* the value with a part's empty value left out
HasValue_NonEmpty(e, part) ==
    /\ part.PartID \in DOMAIN e.BodyValues
    /\ e.BodyValues[part.PartID].Value # <<>>

\* email.go:219, 226: val, ok := e.BodyValues[part.PartID]
HasValue(e, part) == part.PartID \in DOMAIN e.BodyValues

\* email.go:218-221: a text part with a value, return val.Value
TextPartValue ==
    /\ bpc = "text" /\ partIx <= Len(eml.TextBody)
    /\ HasValue(eml, eml.TextBody[partIx])
    /\ bodyText' = eml.BodyValues[eml.TextBody[partIx].PartID].Value
    /\ bpc' = "clean"
    /\ UNCHANGED <<eml, bodyOpts, partIx, cleanBody>>
    /\ UNCHANGED notBody

\* email.go:218-222: a text part without a value, on to the next part
TextPartNoValue ==
    /\ bpc = "text" /\ partIx <= Len(eml.TextBody)
    /\ ~HasValue(eml, eml.TextBody[partIx])
    /\ partIx' = partIx + 1
    /\ UNCHANGED <<eml, bodyOpts, bodyText, cleanBody, bpc>>
    /\ UNCHANGED notBody

\* email.go:218, 225: the text parts are through, on to the HTML parts
TextBodyDone ==
    /\ bpc = "text" /\ partIx > Len(eml.TextBody)
    /\ partIx' = 1
    /\ bpc' = "html"
    /\ UNCHANGED <<eml, bodyOpts, bodyText, cleanBody>>
    /\ UNCHANGED notBody

\* email.go:225-228: an HTML part with a value, return val.Value
HTMLPartValue ==
    /\ bpc = "html" /\ partIx <= Len(eml.HTMLBody)
    /\ HasValue(eml, eml.HTMLBody[partIx])
    /\ bodyText' = eml.BodyValues[eml.HTMLBody[partIx].PartID].Value
    /\ bpc' = "clean"
    /\ UNCHANGED <<eml, bodyOpts, partIx, cleanBody>>
    /\ UNCHANGED notBody

\* email.go:225-229: an HTML part without a value, on to the next part
HTMLPartNoValue ==
    /\ bpc = "html" /\ partIx <= Len(eml.HTMLBody)
    /\ ~HasValue(eml, eml.HTMLBody[partIx])
    /\ partIx' = partIx + 1
    /\ UNCHANGED <<eml, bodyOpts, bodyText, cleanBody, bpc>>
    /\ UNCHANGED notBody

\* email.go:232: return e.Preview
ReturnPreview ==
    /\ bpc = "html" /\ partIx > Len(eml.HTMLBody)
    /\ bodyText' = eml.Preview
    /\ bpc' = "clean"
    /\ UNCHANGED <<eml, bodyOpts, partIx, cleanBody>>
    /\ UNCHANGED notBody

\* part_003:82-83: return CleanBody(body, opts)
GetCleanBody ==
    /\ bpc = "clean"
    /\ cleanBody' = CleanBody(bodyText, bodyOpts)
    /\ bpc' = "done"
    /\ UNCHANGED <<eml, bodyOpts, partIx, bodyText>>
    /\ UNCHANGED notBody

BodyNext ==
    \/ TextPartValue \/ TextPartNoValue \/ TextBodyDone
    \/ HTMLPartValue \/ HTMLPartNoValue \/ ReturnPreview \/ GetCleanBody

(***************************************************************************)
(* GroupEmailsBySubject and the memory of its caller,                      *)
(* tui/threadlist.go:42-94                                                 *)
(***************************************************************************)
\* A slice is a window [arr, len, cap] on one of the arrays of the heap; the
\* nil slice has no array.
NilSlice == [arr |-> 0, len |-> 0, cap |-> 0]

\* the elements a slice shows
SliceView(heap, sl) == IF sl.arr = 0 THEN <<>> ELSE SubSeq(heap[sl.arr], 1, sl.len)

\* jmap.Email{}: what the unused room of a new array holds
ZeroEmail == [ID |-> 0, Subject |-> <<>>, ReceivedAt |-> "", From |-> <<>>, Preview |-> ""]

\* append(sl, email), line 53: with room left the element is written behind
\* the slice in its own array; without, a new and sufficiently large array is
\* allocated (how large is up to the runtime) and the elements are copied
AppendOutcomes(heap, sl, email) ==
    IF sl.len < sl.cap
    THEN { [ heap  |-> [heap EXCEPT ![sl.arr] =
                           [heap[sl.arr] EXCEPT ![sl.len + 1] = email]],
             slice |-> [arr |-> sl.arr, len |-> sl.len + 1, cap |-> sl.cap] ] }
    ELSE { [ heap  |-> Append(heap, SliceView(heap, sl) \o <<email>>
                                   \o [i \in 1..(c - sl.len - 1) |-> ZeroEmail]),
             slice |-> [arr |-> Len(heap) + 1, len |-> sl.len + 1, cap |-> c] ]
           : c \in (sl.len + 1)..(sl.len + 1 + MaxSpare) }

\* the map of the call before kept in use
FreshGroups_Kept(grps) == grps

\* line 45: groups := make(map[string][]jmap.Email)
FreshGroups(grps) == EmptyMap

RegroupInit ==
    /\ rInput \in MailSeqs
    /\ rMem = <<rInput>>
    /\ rGroups = EmptyMap /\ rOrder = <<>> /\ rItems = <<>>
    /\ rRet = <<>> /\ rSeen = <<>>
    /\ rCall = 0 /\ rI = 0
    /\ rpc = "call"

RegroupOff ==
    /\ rInput = <<>> /\ rMem = <<>>
    /\ rGroups = EmptyMap /\ rOrder = <<>> /\ rItems = <<>>
    /\ rRet = <<>> /\ rSeen = <<>>
    /\ rCall = 0 /\ rI = 0
    /\ rpc = "off"

\* lines 43-46: the caller calls with its slice; groups and order are new
RegroupCall ==
    /\ rpc = "call" /\ rCall < MaxCalls
    /\ rGroups' = FreshGroups(rGroups)
    /\ rOrder' = <<>>
    /\ rCall' = rCall + 1
    /\ rI' = 1
    /\ rpc' = "collect"
    /\ UNCHANGED <<rMem, rInput, rItems, rRet, rSeen>>
    /\ UNCHANGED notRegroup

\* one iteration of the loop of lines 48-54; email is a copy of the element
RegroupCollect ==
    /\ rpc = "collect" /\ rI <= Len(rMem[1])
    /\ LET email == rMem[1][rI]
           k == NormalizeSubject(email.Subject)
           old == IF k \in DOMAIN rGroups THEN rGroups[k] ELSE NilSlice
       IN  /\ rOrder' = OrderAfter(rOrder, rGroups, k)
           /\ \E o \in AppendOutcomes(rMem, old, email) :
                 /\ rMem' = o.heap
                 /\ rGroups' = [x \in DOMAIN rGroups \cup {k} |->
                                   IF x = k THEN o.slice ELSE rGroups[x]]
    /\ rI' = rI + 1
    /\ UNCHANGED <<rInput, rItems, rRet, rSeen, rCall, rpc>>
    /\ UNCHANGED notRegroup

\* line 57: the first loop is over, items is made
RegroupCollected ==
    /\ rpc = "collect" /\ rI > Len(rMem[1])
    /\ rItems' = <<>>
    /\ rI' = 1
    /\ rpc' = "build"
    /\ UNCHANGED <<rMem, rInput, rGroups, rOrder, rRet, rSeen, rCall>>
    /\ UNCHANGED notRegroup

\* one iteration of the loop of lines 58-91: sort.Slice swaps the elements
\* of the array groupEmails is a window on; the item keeps the slice
RegroupBuild ==
    /\ rpc = "build" /\ rI <= Len(rOrder)
    /\ LET k == rOrder[rI]
           sl == rGroups[k]
       IN  \E sorted \in SortSliceOutcomes(SliceView(rMem, sl)) :
             /\ rMem' = [rMem EXCEPT ![sl.arr] =
                            sorted \o SubSeq(rMem[sl.arr], sl.len + 1, sl.cap)]
             /\ rItems' = Append(rItems,
                            [MakeThreadItem(k, sorted) EXCEPT !.Emails = sl])
    /\ rI' = rI + 1
    /\ UNCHANGED <<rInput, rGroups, rOrder, rRet, rSeen, rCall, rpc>>
    /\ UNCHANGED notRegroup

\* line 93: return items; the caller keeps what the first call returned
RegroupReturn ==
    /\ rpc = "build" /\ rI > Len(rOrder)
    /\ rRet' = IF rCall = 1 THEN rItems ELSE rRet
    /\ rSeen' = IF rCall = 1
                THEN [i \in 1..Len(rItems) |-> SliceView(rMem, rItems[i].Emails)]
                ELSE rSeen
    /\ rpc' = "call"
    /\ UNCHANGED <<rMem, rInput, rGroups, rOrder, rItems, rCall, rI>>
    /\ UNCHANGED notRegroup

RegroupNext ==
    \/ RegroupCall \/ RegroupCollect \/ RegroupCollected
    \/ RegroupBuild \/ RegroupReturn

(***************************************************************************)
(* threadListModel, tui/threadlist.go:96-166                               *)
(***************************************************************************)
\* newThreadListModel, lines 103-110
NewThreadListModel == [items |-> <<>>, cursor |-> 0, height |-> 10, offset |-> 0]

\* SetItems, lines 112-116
SetItems(m, its) == [m EXCEPT !.items = its, !.cursor = 0, !.offset = 0]

\* SetHeight, lines 118-124
SetHeight(m, h) == [m EXCEPT !.height = IF h - 4 < 3 THEN 3 ELSE h - 4]

\* MoveUp, lines 126-133
MoveUp(m) ==
    IF m.cursor > 0
    THEN [m EXCEPT !.cursor = m.cursor - 1,
                   !.offset = IF m.cursor - 1 < m.offset THEN m.cursor - 1 ELSE m.offset]
    ELSE m

\* MoveDown stopping one row late
MoveDown_PastEnd(m) ==
    IF m.cursor < Len(m.items)
    THEN [m EXCEPT !.cursor = m.cursor + 1,
                   !.offset = IF m.cursor + 1 >= m.offset + m.height
                              THEN m.cursor + 1 - m.height + 1 ELSE m.offset]
    ELSE m

\* MoveDown, lines 135-142
MoveDown(m) ==
    IF m.cursor < Len(m.items) - 1
    THEN [m EXCEPT !.cursor = m.cursor + 1,
                   !.offset = IF m.cursor + 1 >= m.offset + m.height
                              THEN m.cursor + 1 - m.height + 1 ELSE m.offset]
    ELSE m

\* Selected, lines 144-149: nil, the item under the cursor, or an index out
\* of range
Selected(m) ==
    IF Len(m.items) = 0 THEN "nil"
    ELSE IF m.cursor \in 0..(Len(m.items) - 1) THEN m.items[m.cursor + 1]
    ELSE "panic"

\* View, lines 152-163: the indices of the rows drawn
ViewRows(m) ==
    IF Len(m.items) = 0 THEN {}
    ELSE LET end == IF m.offset + m.height > Len(m.items)
                    THEN Len(m.items) ELSE m.offset + m.height
         IN  m.offset..(end - 1)

\* the conversations of a search: numbered, for telling them apart
ItemLists == { [i \in 1..n |-> ToString(i)] : n \in 0..MaxItems }

ListInit ==
    /\ threadList = NewThreadListModel
    /\ selected = [of |-> 0, item |-> "nil"]
    /\ drawn = {}

ListOff ==
    /\ threadList = [items |-> <<>>, cursor |-> 0, height |-> 0, offset |-> 0]
    /\ selected = [of |-> 0, item |-> "nil"]
    /\ drawn = {}

\* app.go:129: a search result is shown
ListSetItems ==
    /\ threadList.height > 0
    /\ \E its \in ItemLists : threadList' = SetItems(threadList, its)
    /\ UNCHANGED <<selected, drawn, notList>>

\* app.go:101-104: the terminal is resized
ListSetHeight ==
    /\ threadList.height > 0
    /\ \E screen \in 0..MaxScreenHeight :
          threadList' = SetHeight(threadList, screen - 6)
    /\ UNCHANGED <<selected, drawn, notList>>

\* app.go:194-196
ListMoveUp ==
    /\ threadList.height > 0
    /\ threadList' = MoveUp(threadList)
    /\ UNCHANGED <<selected, drawn, notList>>

\* app.go:198-200
ListMoveDown ==
    /\ threadList.height > 0
    /\ threadList' = MoveDown(threadList)
    /\ UNCHANGED <<selected, drawn, notList>>

\* app.go:203
ListSelected ==
    /\ threadList.height > 0
    /\ selected' = [of |-> Len(threadList.items), item |-> Selected(threadList)]
    /\ UNCHANGED <<threadList, drawn, notList>>

\* the list is rendered
ListView ==
    /\ threadList.height > 0
    /\ drawn' = ViewRows(threadList)
    /\ UNCHANGED <<threadList, selected, notList>>

ListNext ==
    \/ ListSetItems \/ ListSetHeight \/ ListMoveUp \/ ListMoveDown
    \/ ListSelected \/ ListView

(***************************************************************************)
(* Model.Update, tui/app.go:83-297, and the commands of lines 356-368      *)
(***************************************************************************)
\* New, lines 69-77
NewModel ==
    [ view |-> "viewSearch", threadList |-> NewThreadListModel, threadView |-> <<>>,
      loading |-> FALSE, status |-> "", err |-> "nil" ]

\* GroupEmailsBySubject(msg.emails) for the emails found by the n-th search:
\* its conversations, named after the search
ConversationsFound(n) == [i \in 1..(n + 1) |-> ToString(n) \o "." \o ToString(i)]

\* lines 101-106
OnWindowSize(m, height) ==
    [m EXCEPT !.threadList = SetHeight(m.threadList, height - 6)]

\* the failed search shown as an empty result
OnSearchResult_ShowsError(m, msg) ==
    IF msg.err
    THEN [m EXCEPT !.loading = FALSE, !.err = "error", !.status = "Error",
                   !.threadList = SetItems(m.threadList, <<>>), !.view = "viewList"]
    ELSE [m EXCEPT !.loading = FALSE,
                   !.threadList = SetItems(m.threadList, ConversationsFound(msg.n)),
                   !.view = "viewList", !.status = "Found"]

\* lines 108-132
OnSearchResult(m, msg) ==
    IF msg.err
    THEN [m EXCEPT !.loading = FALSE, !.err = "error", !.status = "Error"]
    ELSE [m EXCEPT !.loading = FALSE,
                   !.threadList = SetItems(m.threadList, ConversationsFound(msg.n)),
                   !.view = "viewList", !.status = "Found"]

\* lines 134-151; the emails loaded are those of the conversation asked for
OnThreadLoaded(m, msg) ==
    IF msg.err
    THEN [m EXCEPT !.loading = FALSE, !.err = "error", !.status = "Error"]
    ELSE [m EXCEPT !.loading = FALSE, !.threadView = <<msg.what>>,
                   !.view = "viewThread", !.status = "Loaded"]

KeyMsg == [type |-> "KeyMsg", n |-> 0, what |-> "", err |-> FALSE]

TuiInit ==
    /\ tui = NewModel
    /\ running = TRUE
    /\ pending = {}
    /\ asked = 0 /\ loads = 0
    /\ delivered = <<>>
    /\ lastMsg = [msg |-> KeyMsg, before |-> NewModel]

TuiOff ==
    /\ tui = [NewModel EXCEPT !.view = "off"]
    /\ running = FALSE
    /\ pending = {}
    /\ asked = 0 /\ loads = 0
    /\ delivered = <<>>
    /\ lastMsg = [msg |-> KeyMsg, before |-> NewModel]

\* lines 85-89, 183-184, 220-221: a key that quits
TuiQuit ==
    /\ running /\ tui.view \in {"viewSearch", "viewList"}
    /\ running' = FALSE
    /\ lastMsg' = [msg |-> KeyMsg, before |-> tui]
    /\ UNCHANGED <<tui, pending, asked, loads, delivered, notTui>>

\* lines 101-106: the terminal is resized
TuiWindowSize ==
    /\ running
    /\ \E height \in {0, MaxScreenHeight} : tui' = OnWindowSize(tui, height)
    /\ lastMsg' = [msg |-> [KeyMsg EXCEPT !.type = "WindowSizeMsg"], before |-> tui]
    /\ UNCHANGED <<running, pending, asked, loads, delivered, notTui>>

\* lines 177-181, 356-361: Enter in the search view starts a search
TuiSearchEnter ==
    /\ running /\ tui.view = "viewSearch" /\ asked < MaxSearches
    /\ tui' = [tui EXCEPT !.loading = TRUE, !.status = "Searching..."]
    /\ pending' = pending \cup {[type |-> "searchResultMsg", n |-> asked + 1, what |-> ""]}
    /\ asked' = asked + 1
    /\ lastMsg' = [msg |-> KeyMsg, before |-> tui]
    /\ UNCHANGED <<running, loads, delivered, notTui>>

\* lines 194-196
TuiListUp ==
    /\ running /\ tui.view = "viewList"
    /\ tui' = [tui EXCEPT !.threadList = MoveUp(tui.threadList)]
    /\ lastMsg' = [msg |-> KeyMsg, before |-> tui]
    /\ UNCHANGED <<running, pending, asked, loads, delivered, notTui>>

\* lines 198-200
TuiListDown ==
    /\ running /\ tui.view = "viewList"
    /\ tui' = [tui EXCEPT !.threadList = MoveDown(tui.threadList)]
    /\ lastMsg' = [msg |-> KeyMsg, before |-> tui]
    /\ UNCHANGED <<running, pending, asked, loads, delivered, notTui>>

\* lines 202-214, 363-368: Enter in the list loads the selected conversation
TuiListEnter ==
    /\ running /\ tui.view = "viewList" /\ loads < MaxLoads
    /\ IF Selected(tui.threadList) # "nil"
       THEN /\ tui' = [tui EXCEPT !.loading = TRUE, !.status = "Loading emails..."]
            /\ pending' = pending \cup {[type |-> "threadLoadedMsg", n |-> loads + 1,
                                          what |-> Selected(tui.threadList)]}
            /\ loads' = loads + 1
       ELSE UNCHANGED <<tui, pending, loads>>
    /\ lastMsg' = [msg |-> KeyMsg, before |-> tui]
    /\ UNCHANGED <<running, asked, delivered, notTui>>

\* lines 216-218: back to the search view
TuiListSearch ==
    /\ running /\ tui.view = "viewList"
    /\ tui' = [tui EXCEPT !.view = "viewSearch"]
    /\ lastMsg' = [msg |-> KeyMsg, before |-> tui]
    /\ UNCHANGED <<running, pending, asked, loads, delivered, notTui>>

\* lines 288-290: back to the list
TuiThreadBack ==
    /\ running /\ tui.view = "viewThread"
    /\ tui' = [tui EXCEPT !.view = "viewList"]
    /\ lastMsg' = [msg |-> KeyMsg, before |-> tui]
    /\ UNCHANGED <<running, pending, asked, loads, delivered, notTui>>

\* lines 108-132: a search command has finished and its message is handled
TuiSearchResult ==
    /\ running
    /\ \E c \in pending : \E failed \in BOOLEAN :
          /\ c.type = "searchResultMsg"
          /\ LET msg == [type |-> c.type, n |-> c.n, what |-> c.what, err |-> failed]
             IN  /\ tui' = OnSearchResult(tui, msg)
                 /\ delivered' = Append(delivered, msg)
                 /\ lastMsg' = [msg |-> msg, before |-> tui]
          /\ pending' = pending \ {c}
    /\ UNCHANGED <<running, asked, loads, notTui>>

\* lines 134-151: a load command has finished and its message is handled
TuiThreadLoaded ==
    /\ running
    /\ \E c \in pending : \E failed \in BOOLEAN :
          /\ c.type = "threadLoadedMsg"
          /\ LET msg == [type |-> c.type, n |-> c.n, what |-> c.what, err |-> failed]
             IN  /\ tui' = OnThreadLoaded(tui, msg)
                 /\ delivered' = Append(delivered, msg)
                 /\ lastMsg' = [msg |-> msg, before |-> tui]
          /\ pending' = pending \ {c}
    /\ UNCHANGED <<running, asked, loads, notTui>>

TuiNext ==
    \/ TuiQuit \/ TuiWindowSize \/ TuiSearchEnter \/ TuiListUp \/ TuiListDown
    \/ TuiListEnter \/ TuiListSearch \/ TuiThreadBack
    \/ TuiSearchResult \/ TuiThreadLoaded

(***************************************************************************)
(* deduplicateFilename and the attachment loop of ExportToFolder           *)
(***************************************************************************)
DecimalDigits == <<"0", "1", "2", "3", "4", "5", "6", "7", "8", "9">>

\* %d of fmt.Sprintf, for a count >= 0
RECURSIVE Itoa(_)
Itoa(n) ==
    IF n < 10 THEN <<DecimalDigits[n + 1]>>
    ELSE Itoa(n \div 10) \o <<DecimalDigits[(n % 10) + 1]>>

\* filepath.Ext: the suffix from the last dot of the last path element
RECURSIVE ExtFrom(_, _)
ExtFrom(path, i) ==
    IF i < 1 \/ path[i] = "/" THEN <<>>
    ELSE IF path[i] = "." THEN SubSeq(path, i, Len(path))
    ELSE ExtFrom(path, i - 1)

Ext(path) == ExtFrom(path, Len(path))

\* strings.TrimSuffix
TrimSuffix(s, suffix) ==
    IF Len(suffix) <= Len(s) /\ SubSeq(s, Len(s) - Len(suffix) + 1, Len(s)) = suffix
    THEN SubSeq(s, 1, Len(s) - Len(suffix))
    ELSE s

\* the map with one entry set
MapSet(used, k, v) == [x \in DOMAIN used \cup {k} |-> IF x = k THEN v ELSE used[x]]

\* deduplicateFilename: the name returned, and the map afterwards
DeduplicateFilename(fname, used) ==
    IF fname \notin DOMAIN used
    THEN [name |-> fname, used |-> MapSet(used, fname, 1)]
    ELSE LET count == used[fname]
             ext == Ext(fname)
             base == TrimSuffix(fname, ext)
         IN  [name |-> base \o <<"_">> \o Itoa(count) \o ext,
              used |-> MapSet(used, fname, count + 1)]

\* att.Name of the attachments of a thread
AttachmentNames ==
    { <<"a", ".", "t", "x", "t">>, <<"a", "_", "1", ".", "t", "x", "t">>,
      <<"a">>, <<"a", "_", "1">>, <<"a", ".", "b", ".", "t", "x", "t">>,
      <<".", "t", "x", "t">> }

\* usedNames := make(map[string]int)
ExportInit ==
    /\ usedNames = <<>>
    /\ written = <<>>
    /\ attSeen = 0

ExportOff ==
    /\ usedNames = <<>>
    /\ written = <<>>
    /\ attSeen = -1

\* an inline attachment is passed over
ExportSkipInline ==
    /\ attSeen >= 0 /\ attSeen < MaxAttachments
    /\ attSeen' = attSeen + 1
    /\ UNCHANGED <<usedNames, written, notExport>>

\* an attachment is downloaded and written under the name deduplicateFilename gives
ExportAttachment ==
    /\ attSeen >= 0 /\ attSeen < MaxAttachments
    /\ \E attName \in AttachmentNames :
          LET r == DeduplicateFilename(attName, usedNames)
          IN  /\ usedNames' = r.used
              /\ written' = Append(written, r.name)
    /\ attSeen' = attSeen + 1
    /\ UNCHANGED notExport

ExportNext == ExportSkipInline \/ ExportAttachment

(***************************************************************************)
(* config.Load, config/config.go:13-37                                     *)
(***************************************************************************)
\* the path Load joins, config.go:25
ConfigPath == "~/.config/fastmail-agent/config.json"

\* the path of the README (Configuration) and of main's error text
DocumentedConfigPath == "~/.config/fastmail-tui/config.json"

ConfigPaths == {ConfigPath, DocumentedConfigPath}

\* what a path can hold: no file, text that is not JSON, JSON that is not an
\* object, an object without api_token, an object with an api_token
FileKinds == {"missing", "not JSON", "[]", "{}", "api_token"}

\* the api_token written in the file at a path
TokenIn(path) == "fmu1-in-" \o path

\* json.Unmarshal(data, &cfg) for data of a kind read from a path
Unmarshal(kind, path) ==
    CASE kind = "api_token" -> [APIToken |-> TokenIn(path), err |-> FALSE]
      [] kind = "{}"        -> [APIToken |-> "", err |-> FALSE]
      [] OTHER              -> [APIToken |-> "", err |-> TRUE]

NoConfig == [APIToken |-> "", err |-> FALSE]

ConfigInit ==
    /\ cfgEnv \in {"", "fmu1-env"}
    /\ cfgHome \in BOOLEAN
    /\ cfgFiles \in [ConfigPaths -> FileKinds]
    /\ cfgRead = {}
    /\ cfgOut = NoConfig
    /\ cfgpc = "Getenv"

ConfigOff ==
    /\ cfgEnv = ""
    /\ cfgHome = FALSE
    /\ cfgFiles = [p \in ConfigPaths |-> "missing"]
    /\ cfgRead = {}
    /\ cfgOut = NoConfig
    /\ cfgpc = "off"

\* lines 15-17
LoadGetenv ==
    /\ cfgpc = "Getenv"
    /\ IF cfgEnv # ""
       THEN cfgOut' = [APIToken |-> cfgEnv, err |-> FALSE] /\ cfgpc' = "returned"
       ELSE cfgOut' = cfgOut /\ cfgpc' = "UserHomeDir"
    /\ UNCHANGED <<cfgEnv, cfgHome, cfgFiles, cfgRead, notConfig>>

\* lines 20-23
LoadUserHomeDir ==
    /\ cfgpc = "UserHomeDir"
    /\ IF cfgHome
       THEN cfgOut' = cfgOut /\ cfgpc' = "ReadFile"
       ELSE cfgOut' = [APIToken |-> "", err |-> TRUE] /\ cfgpc' = "returned"
    /\ UNCHANGED <<cfgEnv, cfgHome, cfgFiles, cfgRead, notConfig>>

\* lines 25-29
LoadReadFile ==
    /\ cfgpc = "ReadFile"
    /\ cfgRead' = cfgRead \cup {ConfigPath}
    /\ IF cfgFiles[ConfigPath] = "missing"
       THEN cfgOut' = [APIToken |-> "", err |-> TRUE] /\ cfgpc' = "returned"
       ELSE cfgOut' = cfgOut /\ cfgpc' = "Unmarshal"
    /\ UNCHANGED <<cfgEnv, cfgHome, cfgFiles, notConfig>>

\* lines 31-36
LoadUnmarshal ==
    /\ cfgpc = "Unmarshal"
    /\ cfgOut' = Unmarshal(cfgFiles[ConfigPath], ConfigPath)
    /\ cfgpc' = "returned"
    /\ UNCHANGED <<cfgEnv, cfgHome, cfgFiles, cfgRead, notConfig>>

ConfigNext == LoadGetenv \/ LoadUserHomeDir \/ LoadReadFile \/ LoadUnmarshal

(***************************************************************************)
(* jmap.Client: Connect, Call, DownloadBlob (jmap/client.go)               *)
(***************************************************************************)
NilSession == [nil |-> TRUE, mail |-> ""]

\* the sessions getSession can return: PrimaryAccount has a mail account
\* (its id), or has none ("")
Sessions == {[nil |-> FALSE, mail |-> a] : a \in {"", "u1", "u2"}}

\* the guard of Call and DownloadBlob, lines 81 and 137
Connected(sess) == ~sess.nil

\* NewClient, lines 26-31
ClientInit ==
    /\ session = NilSession
    /\ accountID = ""
    /\ clientLog = <<>>

ClientOff ==
    /\ session = NilSession
    /\ accountID = "off"
    /\ clientLog = <<>>

ClientOn == accountID # "off" /\ Len(clientLog) < MaxClientOps

\* Connect, lines 35-38: getSession fails
ConnectNoSession ==
    /\ ClientOn
    /\ clientLog' = Append(clientLog, [op |-> "Connect", ret |-> "failed to get session",
                                       sent |-> FALSE, account |-> accountID])
    /\ UNCHANGED <<session, accountID, notClient>>

\* Connect, lines 35-49: getSession returns a session
ConnectSession ==
    /\ ClientOn
    /\ \E s \in Sessions :
          /\ session' = s
          /\ IF s.mail = ""
             THEN /\ accountID' = accountID
                  /\ clientLog' = Append(clientLog, [op |-> "Connect", ret |-> "no mail account found",
                                                     sent |-> FALSE, account |-> accountID])
             ELSE /\ accountID' = s.mail
                  /\ clientLog' = Append(clientLog, [op |-> "Connect", ret |-> "nil",
                                                     sent |-> FALSE, account |-> s.mail])
    /\ UNCHANGED notClient

\* Call, lines 80-123: the request is sent unless the guard returns
Call ==
    /\ ClientOn
    /\ IF ~Connected(session)
       THEN clientLog' = Append(clientLog, [op |-> "Call", ret |-> "not connected",
                                           sent |-> FALSE, account |-> accountID])
       ELSE \E answer \in {"nil", "API call failed"} :
              clientLog' = Append(clientLog, [op |-> "Call", ret |-> answer,
                                             sent |-> TRUE, account |-> accountID])
    /\ UNCHANGED <<session, accountID, notClient>>

\* DownloadBlob, lines 136-160: the URL is built with c.accountID and fetched
DownloadBlob ==
    /\ ClientOn
    /\ IF ~Connected(session)
       THEN clientLog' = Append(clientLog, [op |-> "DownloadBlob", ret |-> "not connected",
                                           sent |-> FALSE, account |-> accountID])
       ELSE \E answer \in {"nil", "download failed"} :
              clientLog' = Append(clientLog, [op |-> "DownloadBlob", ret |-> answer,
                                             sent |-> TRUE, account |-> accountID])
    /\ UNCHANGED <<session, accountID, notClient>>

ClientNext == ConnectNoSession \/ ConnectSession \/ Call \/ DownloadBlob

(***************************************************************************)
(* main: runQuery, runFetchThread and the state file (part_002)            *)
(***************************************************************************)
\* no file, or nothing printed
NoResult == [Count |-> -1, Threads |-> <<>>]

\* the conversations tui.GroupEmailsBySubject can return for a search, each
\* given by the IDs of its emails
GroupedSearches ==
    { <<>>, << <<"e1">> >>, << <<"e2", "e3">> >>,
      << <<"e1">>, <<"e2", "e3">> >>, << <<"e2", "e3">>, <<"e1">> >> }

\* groupEmailsBySubject, lines 248-275: ID and EmailIDs of each ThreadInfo
ThreadInfos(threads) ==
    [i \in 1..Len(threads) |-> [ID |-> i, EmailIDs |-> threads[i]]]

\* runQuery, lines 117-135: the QueryResult
QueryResult(threads) ==
    [Count |-> Len(threads), Threads |-> ThreadInfos(threads)]

Run(flag, arg) ==
    [flag |-> flag, id |-> arg, err |-> FALSE, launched |-> FALSE,
     printed |-> NoResult, fetched |-> <<>>]

CliInit ==
    /\ stateFile = NoResult
    /\ cliOut = Run("", 0)
    /\ cliRuns = 0

CliOff ==
    /\ stateFile = NoResult
    /\ cliOut = Run("", 0)
    /\ cliRuns = -1

CliOn == cliRuns >= 0 /\ cliRuns < MaxRuns

\* fastmail-agent -q <query>: SearchEmails fails
RunQueryFails ==
    /\ CliOn
    /\ cliOut' = [Run("q", 0) EXCEPT !.err = TRUE]
    /\ cliRuns' = cliRuns + 1
    /\ UNCHANGED <<stateFile, notCli>>

\* fastmail-agent -q <query>: the result is saved (when the file can be
\* written) and printed
RunQuery ==
    /\ CliOn
    /\ \E threads \in GroupedSearches : \E wrote \in BOOLEAN :
          /\ stateFile' = IF wrote THEN QueryResult(threads) ELSE stateFile
          /\ cliOut' = [Run("q", 0) EXCEPT !.printed = QueryResult(threads)]
    /\ cliRuns' = cliRuns + 1
    /\ UNCHANGED notCli

\* fastmail-agent -t <n> with n <= 0: main goes on to the interactive TUI
RunThreadNotPositive ==
    /\ CliOn
    /\ \E n \in -1..0 : cliOut' = [Run("t", n) EXCEPT !.launched = TRUE]
    /\ cliRuns' = cliRuns + 1
    /\ UNCHANGED <<stateFile, notCli>>

\* fastmail-agent -t <n> with n > 0: runFetchThread
RunFetchThread ==
    /\ CliOn
    /\ \E n \in 1..MaxThreadID : \E got \in BOOLEAN :
          cliOut' =
              IF stateFile = NoResult THEN [Run("t", n) EXCEPT !.err = TRUE]
              ELSE IF n < 1 \/ n > Len(stateFile.Threads)
              THEN [Run("t", n) EXCEPT !.err = TRUE]
              ELSE [Run("t", n) EXCEPT !.fetched = stateFile.Threads[n].EmailIDs,
                                       !.err = ~got]
    /\ cliRuns' = cliRuns + 1
    /\ UNCHANGED <<stateFile, notCli>>

CliNext == RunQueryFails \/ RunQuery \/ RunThreadNotPositive \/ RunFetchThread

(***************************************************************************)
(* Specifications                                                          *)
(***************************************************************************)
InitSubjectRuns ==
    SubjectInit /\ GroupOff /\ WsOff /\ ExtractOff /\ CleanOff /\ ConvOff /\
    QuoteOff /\ SigOff /\ BodyOff /\ RegroupOff /\ ListOff /\ TuiOff /\
    ExportOff /\ ConfigOff /\ ClientOff /\ CliOff
SpecSubject == InitSubjectRuns /\ [][SubjectNext]_vars

InitGroupRuns ==
    GroupInit /\ SubjectOff /\ WsOff /\ ExtractOff /\ CleanOff /\ ConvOff /\
    QuoteOff /\ SigOff /\ BodyOff /\ RegroupOff /\ ListOff /\ TuiOff /\
    ExportOff /\ ConfigOff /\ ClientOff /\ CliOff
SpecGroup == InitGroupRuns /\ [][GroupNext]_vars

InitWsRuns ==
    WsInit /\ SubjectOff /\ GroupOff /\ ExtractOff /\ CleanOff /\ ConvOff /\
    QuoteOff /\ SigOff /\ BodyOff /\ RegroupOff /\ ListOff /\ TuiOff /\
    ExportOff /\ ConfigOff /\ ClientOff /\ CliOff
SpecWs == InitWsRuns /\ [][WsNext]_vars

InitExtractRuns ==
    ExtractInit /\ SubjectOff /\ GroupOff /\ WsOff /\ CleanOff /\ ConvOff /\
    QuoteOff /\ SigOff /\ BodyOff /\ RegroupOff /\ ListOff /\ TuiOff /\
    ExportOff /\ ConfigOff /\ ClientOff /\ CliOff
SpecExtract == InitExtractRuns /\ [][ExtractNext]_vars

InitCleanRuns ==
    CleanInit /\ SubjectOff /\ GroupOff /\ WsOff /\ ExtractOff /\ ConvOff /\
    QuoteOff /\ SigOff /\ BodyOff /\ RegroupOff /\ ListOff /\ TuiOff /\
    ExportOff /\ ConfigOff /\ ClientOff /\ CliOff
SpecClean == InitCleanRuns /\ [][CleanNext]_vars

InitConvRuns ==
    ConvInit /\ SubjectOff /\ GroupOff /\ WsOff /\ ExtractOff /\ CleanOff /\
    QuoteOff /\ SigOff /\ BodyOff /\ RegroupOff /\ ListOff /\ TuiOff /\
    ExportOff /\ ConfigOff /\ ClientOff /\ CliOff
SpecConv == InitConvRuns /\ [][ConvNext]_vars

InitQuoteRuns ==
    QuoteInit /\ SubjectOff /\ GroupOff /\ WsOff /\ ExtractOff /\ CleanOff /\
    ConvOff /\ SigOff /\ BodyOff /\ RegroupOff /\ ListOff /\ TuiOff /\ ExportOff /\
    ConfigOff /\ ClientOff /\ CliOff
SpecQuote == InitQuoteRuns /\ [][QuoteNext]_vars

InitSigRuns ==
    SigInit /\ SubjectOff /\ GroupOff /\ WsOff /\ ExtractOff /\ CleanOff /\
    ConvOff /\ QuoteOff /\ BodyOff /\ RegroupOff /\ ListOff /\ TuiOff /\
    ExportOff /\ ConfigOff /\ ClientOff /\ CliOff
SpecSig == InitSigRuns /\ [][SigNext]_vars

InitBodyRuns ==
    BodyInit /\ SubjectOff /\ GroupOff /\ WsOff /\ ExtractOff /\ CleanOff /\
    ConvOff /\ QuoteOff /\ SigOff /\ RegroupOff /\ ListOff /\ TuiOff /\
    ExportOff /\ ConfigOff /\ ClientOff /\ CliOff
SpecBody == InitBodyRuns /\ [][BodyNext]_vars

InitRegroupRuns ==
    RegroupInit /\ SubjectOff /\ GroupOff /\ WsOff /\ ExtractOff /\ CleanOff /\
    ConvOff /\ QuoteOff /\ SigOff /\ BodyOff /\ ListOff /\ TuiOff /\ ExportOff /\
    ConfigOff /\ ClientOff /\ CliOff
SpecRegroup == InitRegroupRuns /\ [][RegroupNext]_vars

InitListRuns ==
    ListInit /\ SubjectOff /\ GroupOff /\ WsOff /\ ExtractOff /\ CleanOff /\
    ConvOff /\ QuoteOff /\ SigOff /\ BodyOff /\ RegroupOff /\ TuiOff /\
    ExportOff /\ ConfigOff /\ ClientOff /\ CliOff
SpecList == InitListRuns /\ [][ListNext]_vars

InitTuiRuns ==
    TuiInit /\ SubjectOff /\ GroupOff /\ WsOff /\ ExtractOff /\ CleanOff /\
    ConvOff /\ QuoteOff /\ SigOff /\ BodyOff /\ RegroupOff /\ ListOff /\
    ExportOff /\ ConfigOff /\ ClientOff /\ CliOff
SpecTui == InitTuiRuns /\ [][TuiNext]_vars

InitExportRuns ==
    ExportInit /\ SubjectOff /\ GroupOff /\ WsOff /\ ExtractOff /\ CleanOff /\
    ConvOff /\ QuoteOff /\ SigOff /\ BodyOff /\ RegroupOff /\ ListOff /\ TuiOff /\
    ConfigOff /\ ClientOff /\ CliOff
SpecExport == InitExportRuns /\ [][ExportNext]_vars

InitConfigRuns ==
    ConfigInit /\ SubjectOff /\ GroupOff /\ WsOff /\ ExtractOff /\ CleanOff /\
    ConvOff /\ QuoteOff /\ SigOff /\ BodyOff /\ RegroupOff /\ ListOff /\ TuiOff /\
    ExportOff /\ ClientOff /\ CliOff
SpecConfig == InitConfigRuns /\ [][ConfigNext]_vars

InitClientRuns ==
    ClientInit /\ SubjectOff /\ GroupOff /\ WsOff /\ ExtractOff /\ CleanOff /\
    ConvOff /\ QuoteOff /\ SigOff /\ BodyOff /\ RegroupOff /\ ListOff /\ TuiOff /\
    ExportOff /\ ConfigOff /\ CliOff
SpecClient == InitClientRuns /\ [][ClientNext]_vars

InitCliRuns ==
    CliInit /\ SubjectOff /\ GroupOff /\ WsOff /\ ExtractOff /\ CleanOff /\
    ConvOff /\ QuoteOff /\ SigOff /\ BodyOff /\ RegroupOff /\ ListOff /\ TuiOff /\
    ExportOff /\ ConfigOff /\ ClientOff
SpecCli == InitCliRuns /\ [][CliNext]_vars

\* C2: NormalizeSubject is idempotent: normalizing a normalized subject again
\* returns it unchanged, for every subject (leading whitespace before a
\* Re:/Fwd:/Fw: prefix included).
C2_NormalizeIdempotent == spc = "renormalized" => key2 = key

\* C3: prepending any chain of re:/fwd:/fw: prefixes (any letter case, each
\* optionally followed by whitespace) to a subject does not change its
\* normalized key.
C3_PrefixesIgnored == spc \in {"normalized", "renormalized"} => key = NormalizeSubject(subj)

(***************************************************************************)
(* Properties of GroupEmailsBySubject (SpecGroup)                          *)
(***************************************************************************)
ItemKeys == [c \in 1..Len(items) |-> items[c].NormalizedSubject]
KeyOf(e) == NormalizeSubject(e.Subject)
FirstIndexOfKey(k) == CHOOSE i \in 1..Len(emails) :
                          /\ KeyOf(emails[i]) = k
                          /\ \A j \in 1..(i - 1) : KeyOf(emails[j]) # k
Unparseable(e) == ~ParseRFC3339(e.ReceivedAt).ok

RECURSIVE SumCounts(_)
SumCounts(its) == IF its = <<>> THEN 0 ELSE Head(its).EmailCount + SumCounts(Tail(its))

\* C4: the result has exactly one conversation per distinct normalized subject
\* of the input, in the order in which each key first occurs in the input;
\* an empty input gives an empty result.
C4_FirstSeenOrder ==
    gpc = "done" =>
        /\ {ItemKeys[c] : c \in 1..Len(items)} = {KeyOf(emails[i]) : i \in 1..Len(emails)}
        /\ \A c, d \in 1..Len(items) : c # d => ItemKeys[c] # ItemKeys[d]
        /\ \A c, d \in 1..Len(items) :
              c < d => FirstIndexOfKey(ItemKeys[c]) < FirstIndexOfKey(ItemKeys[d])
        /\ (emails = <<>> => items = <<>>)

\* three messages, two conversations, and the key order b, a is neither
\* alphabetical nor by date
C4_Witness ==
    /\ gpc = "done"
    /\ Len(emails) = 3
    /\ ItemKeys = << <<"b">>, <<"a">> >>
    /\ items[2].EmailCount = 2
    /\ items[1].Date > items[2].Date

\* C5: the conversations partition the input: every input message is a member
\* of exactly one conversation, the one with its normalized subject; nothing
\* is dropped, duplicated or invented; EmailCount is the length of Emails and
\* at least 1; the EmailCounts add up to the number of input messages.
C5_Partition ==
    gpc = "done" =>
        /\ \A i \in 1..Len(emails) :
              /\ Cardinality({<<c, m>> \in (1..Len(items)) \X (1..MaxEmails + 1) :
                                 /\ m <= Len(items[c].Emails)
                                 /\ items[c].Emails[m] = emails[i]}) = 1
              /\ \A c \in 1..Len(items) :
                    (\E m \in 1..Len(items[c].Emails) : items[c].Emails[m] = emails[i])
                        => items[c].NormalizedSubject = KeyOf(emails[i])
        /\ \A c \in 1..Len(items) :
              /\ items[c].EmailCount = Len(items[c].Emails)
              /\ items[c].EmailCount >= 1
              /\ \A m \in 1..Len(items[c].Emails) :
                    \E i \in 1..Len(emails) : emails[i] = items[c].Emails[m]
        /\ SumCounts(items) = Len(emails)

C5_Witness ==
    /\ gpc = "done"
    /\ Len(emails) = 3
    /\ Len(items) = 2
    /\ items[1].EmailCount = 2
    /\ KeyOf(emails[2]) # KeyOf(emails[1])

\* C6 as stated: in every conversation the members with a valid timestamp are
\* in ascending order of it, and every member whose timestamp fails to parse
\* comes before every member with a valid timestamp.
C6_UnparseableFirst ==
    gpc = "done" =>
        \A c \in 1..Len(items) :
            \A i, j \in 1..Len(items[c].Emails) :
                LET a == items[c].Emails[i]
                    b == items[c].Emails[j]
                IN  /\ (i < j /\ ~Unparseable(a) /\ ~Unparseable(b))
                        => ParsedTime(a) <= ParsedTime(b)
                    /\ (Unparseable(a) /\ ~Unparseable(b)) => i < j

\* C6 as amended: in every conversation the members are in ascending order of
\* the instant time.Parse returns for them, which for a timestamp that fails
\* to parse is the zero Time 0001-01-01T00:00:00Z; so an unparseable member
\* comes before every member with a valid timestamp later than the zero Time.
C6_SortedByParsedTime ==
    gpc = "done" =>
        \A c \in 1..Len(items) :
            \A i, j \in 1..Len(items[c].Emails) :
                LET a == items[c].Emails[i]
                    b == items[c].Emails[j]
                IN  /\ i < j => ParsedTime(a) <= ParsedTime(b)
                    /\ (Unparseable(a) /\ ~Unparseable(b) /\ ParsedTime(b) > ZeroTime)
                        => i < j

\* a conversation of three whose input order was newest, unparseable, oldest
\* valid: after the sort the unparseable one precedes the later one
C6_Witness ==
    /\ gpc = "done"
    /\ Len(items) = 1
    /\ Len(emails) = 3
    /\ ~Unparseable(emails[1]) /\ Unparseable(emails[2]) /\ ~Unparseable(emails[3])
    /\ ParsedTime(emails[1]) > ParsedTime(emails[3])
    /\ ParsedTime(emails[3]) > ZeroTime
    /\ Unparseable(items[1].Emails[1])
    /\ items[1].Emails[3] = emails[1]

\* C7: the display fields of a conversation are those of its last member after
\* the sort: Subject and Preview are that member's, unchanged, and Date is the
\* instant parsed from its timestamp, which no other member's exceeds.
C7_DisplayFromLast ==
    gpc = "done" =>
        \A c \in 1..Len(items) :
            LET last == items[c].Emails[Len(items[c].Emails)]
            IN  /\ items[c].Subject = last.Subject
                /\ items[c].Preview = last.Preview
                /\ items[c].Date = ParseRFC3339(last.ReceivedAt).t
                /\ \A m \in 1..Len(items[c].Emails) :
                      ParseRFC3339(items[c].Emails[m].ReceivedAt).t <= items[c].Date

\* the newest member came first in the input, its subject is not the key and
\* its preview has leading and trailing blanks that are kept
C7_Witness ==
    /\ gpc = "done"
    /\ Len(items) = 1
    /\ items[1].EmailCount = 3
    /\ items[1].Emails[3] = emails[1]
    /\ items[1].Subject = <<"R","E",":"," ","a">>
    /\ items[1].Preview = "  > see below "
    /\ items[1].Emails[1].Preview # items[1].Preview
    /\ items[1].Date > ParsedTime(items[1].Emails[2])

\* C8: From is the display name of the representative's first sender when it
\* is not empty, otherwise that sender's address, and "" when the
\* representative has no sender; the grouping completes all the same.
C8_FromFallback ==
    gpc = "done" =>
        \A c \in 1..Len(items) :
            LET last == items[c].Emails[Len(items[c].Emails)]
            IN  /\ last.From = <<>> => items[c].From = ""
                /\ (last.From # <<>> /\ last.From[1].Name # "")
                      => items[c].From = last.From[1].Name
                /\ (last.From # <<>> /\ last.From[1].Name = "")
                      => items[c].From = last.From[1].Email

\* two conversations: one whose representative has no sender, one whose
\* representative's first sender has a name, next to a member without name
C8_Witness ==
    /\ gpc = "done"
    /\ Len(items) = 2
    /\ items[1].Emails[1].From = <<>>
    /\ items[1].From = ""
    /\ items[2].From = "Bob"
    /\ items[2].EmailCount = 2
    /\ items[2].Emails[1].From # <<>>
    /\ items[2].Emails[1].From[1].Name = ""

(***************************************************************************)
(* Properties of cleanWhitespace (SpecWs)                                  *)
(***************************************************************************)
\* C9: the whitespace cleanup is idempotent: applying cleanWhitespace to its
\* own output returns that output unchanged, for every input (lines holding
\* only spaces between newlines included).
C9_CleanupIdempotent == wpc = "recleaned" => wsOut2 = wsOut

(***************************************************************************)
(* Properties of extractText (SpecExtract)                                 *)
(***************************************************************************)
\* node n is a script, style or head element or lies below one
InSkippedSubtree(tree, n) ==
    \E a \in 1..Len(tree) :
        /\ tree[a].kind = "element"
        /\ tree[a].data \in {"script", "style", "head"}
        /\ IsAncestorOrSelf(tree, a, n)

\* C10: a script, style or head element contributes nothing to the output:
\* no piece of text and no newline in the builder was written for it or for
\* any of its descendants, at any depth.
C10_SkippedSubtreesSilent ==
    \A i \in 1..Len(sb) : ~InSkippedSubtree(dom, sb[i].node)

\* a head element holding a paragraph that holds text (depth two): the walk
\* is over and neither the paragraph's newlines nor the text were written
C10_Witness ==
    /\ xpc = "done"
    /\ Len(dom) = 3
    /\ dom[1] = [parent |-> 0, kind |-> "element", data |-> "head"]
    /\ dom[2] = [parent |-> 1, kind |-> "element", data |-> "p"]
    /\ dom[3] = [parent |-> 2, kind |-> "text", data |-> <<"x">>]
    /\ sb = <<>>
    /\ text = <<>>

\* C1: CleanBody is idempotent: cleaning an already cleaned body again, with
\* the same options, returns it unchanged, in each of the four configurations
\* of StripQuotes and StripSignatures
C1_CleanBodyIdempotent == cpc = "recleaned" => recleaned = cleaned

\* the pieces element n wrote itself, and the pieces its descendants wrote
OwnPieces(n) == {i \in 1..Len(sb) : sb[i].node = n}

DescendantPieces(n) ==
    {i \in 1..Len(sb) : sb[i].node # n /\ IsAncestorOrSelf(dom, n, sb[i].node)}

\* what element n wrote: only newlines, entry of them ahead of everything its
\* descendants wrote and exit of them behind it
WritesNewlines(n, entry, exit) ==
    /\ \A i \in OwnPieces(n) : sb[i].str = <<"\n">>
    /\ Cardinality(OwnPieces(n)) = entry + exit
    /\ DescendantPieces(n) # {} =>
          /\ Cardinality({i \in OwnPieces(n) : \A j \in DescendantPieces(n) : i < j}) = entry
          /\ Cardinality({i \in OwnPieces(n) : \A j \in DescendantPieces(n) : i > j}) = exit

VisitedElements ==
    {n \in 1..Len(dom) : dom[n].kind = "element" /\ ~InSkippedSubtree(dom, n)}

HeadingTags == {"h1", "h2", "h3", "h4", "h5", "h6"}

\* C11 as stated: every p, div, h1..h6, li and tr element appends a newline
\* before its children are visited and one after they are processed; br
\* appends one newline, on entry; no other element appends a newline.
C11_BlockNewlinesBothSides ==
    xpc \in {"walked", "done"} =>
        \A n \in VisitedElements :
            IF dom[n].data \in {"p", "div", "li", "tr"} \cup HeadingTags
            THEN WritesNewlines(n, 1, 1)
            ELSE IF dom[n].data = "br" THEN WritesNewlines(n, 1, 0)
            ELSE WritesNewlines(n, 0, 0)

\* C11 as amended: an element that is walked appends a newline before its
\* children iff it is br, p, div, h1..h6, li or tr, and a newline after its
\* children iff it is p, div, h1..h6, ul, ol or table; it appends nothing else.
C11_EntryAndExitNewlines ==
    xpc \in {"walked", "done"} =>
        \A n \in VisitedElements :
            WritesNewlines(n,
                IF dom[n].data \in {"br", "p", "div", "li", "tr"} \cup HeadingTags
                THEN 1 ELSE 0,
                IF dom[n].data \in {"p", "div", "ul", "ol", "table"} \cup HeadingTags
                THEN 1 ELSE 0)

\* a list holding an item holding text has been walked: the item wrote its
\* newline ahead of the text, the list wrote its newline behind it
C11_Witness ==
    /\ xpc = "walked"
    /\ Len(dom) = 3
    /\ dom[1].data = "ul" /\ dom[2].data = "li" /\ dom[2].parent = 1
    /\ dom[3].kind = "text" /\ dom[3].parent = 2
    /\ sb = << Piece(2, <<"\n">>), Piece(3, <<"x">>), Piece(1, <<"\n">>) >>

\* the markup the parser is handed: quote-stripped when stripQuotes is set
MarkupToParse == IF hFlag THEN StripQuotesFromHTML(hIn) ELSE hIn

\* C12: HTML-to-text extraction is total: a failure of html.Parse is not
\* passed on but leads to the fallback, and what the call returns is a string
\* on either path; when html.Parse reports a failure the result is the regex
\* fallback applied to the same (possibly quote-stripped) markup: script and style blocks removed, br and closing
\* block tags turned into newlines, the remaining tags removed, the six
\* entities decoded, then the whitespace cleanup.
C12_ExtractionTotal ==
    /\ hpc = "failed" => hErr
    /\ hpc = "parsed" => ~hErr
    /\ hpc = "done" =>
          /\ hOut \in Seq(STRING)
          /\ hErr =>
                hOut = cleanWhitespace(DecodeEntities(RemoveTags(
                           BlockCloseToNewline(BrToNewline(
                               RemoveStyleBlocks(RemoveScriptBlocks(MarkupToParse)))))))

\* the parse of quote-stripped markup failed and the fallback returned: the
\* blockquote went with the quote removal, the script block and the tags
\* with the fallback, and the entity came out decoded
C12_Witness ==
    /\ hpc = "done" /\ hErr /\ hFlag
    /\ hIn = <<"<","b","l","o","c","k","q","u","o","t","e",">","q","<","/","b","l","o","c","k","q","u","o","t","e",">">> \o <<"<","s","c","r","i","p","t",">","s","<","/","s","c","r","i","p","t",">">> \o <<"&","a","m","p",";">>
    /\ hOut = <<"&">>

\* s without the regions that begin at the positions of cuts: the characters
\* outside them, in their order
LengthOfCuts(cuts, ends) ==
    LET RECURSIVE Sum(_)
        Sum(c) == IF c = {} THEN 0
                  ELSE LET p == CHOOSE q \in c : TRUE IN (ends[p] - p) + Sum(c \ {p})
    IN  Sum(cuts)

IsWithoutCuts(t, s, cuts, ends) ==
    /\ Len(t) = Len(s) - LengthOfCuts(cuts, ends)
    /\ \A i \in 1..Len(s) :
          (\A p \in cuts : ~(p <= i /\ i < ends[p])) =>
              t[i - LengthOfCuts({p \in cuts : p < i}, ends)] = s[i]

\* C13 as stated: StripQuotesFromHTML removes only the first matching region
\* of each of the three quote kinds; a second blockquote (or second
\* gmail_quote or Outlook container) later in the same markup stays in place.
C13_OnlyFirstRegionRemoved ==
    (hpc # "input" /\ hFlag) =>
        /\ hStr = hMid[4]
        /\ \A k \in 1..3 :
              LET ends == QuotePatternEnds(k, hMid[k])
                  all == {p \in 1..Len(hMid[k]) : ends[p] # 0}
                  first == IF all = {} THEN {} ELSE {Min(all)}
              IN  /\ hCuts[k] = first
                  /\ IsWithoutCuts(hMid[k + 1], hMid[k], first, ends)

\* C13 as amended: StripQuotesFromHTML removes every matching region of each
\* of the three quote kinds in turn (blockquote, gmail_quote container,
\* Outlook container), found left to right without overlap: no region of the
\* markup a pattern is applied to that matches the pattern stays in place, a
\* second region later in the same markup included.
C13_EveryRegionRemoved ==
    (hpc # "input" /\ hFlag) =>
        /\ hStr = hMid[4]
        /\ \A k \in 1..3 :
              LET ends == QuotePatternEnds(k, hMid[k])
              IN  /\ \A p \in hCuts[k] : ends[p] # 0
                  /\ \A p, q \in hCuts[k] : p < q => ends[p] <= q
                  /\ \A q \in 1..Len(hMid[k]) :
                        ends[q] # 0 =>
                            \E p \in hCuts[k] : p <= q /\ q < ends[p]
                  /\ IsWithoutCuts(hMid[k + 1], hMid[k], hCuts[k], ends)

\* two blockquotes with text between them: both were removed
C13_Witness ==
    /\ hpc = "stripped" /\ hFlag
    /\ hIn = <<"<","b","l","o","c","k","q","u","o","t","e",">","q","<","/","b","l","o","c","k","q","u","o","t","e",">">> \o <<"x">> \o <<"<","b","l","o","c","k","q","u","o","t","e",">","q","<","/","b","l","o","c","k","q","u","o","t","e",">">>
    /\ Cardinality(hCuts[1]) = 2
    /\ hStr = <<"x">>

\* where truncation pattern k of StripQuotes matches in s: 1 the attribution
\* line, 2 the forwarded-message marker, 3 the original-message marker, 4 the
\* Outlook header block
MarkerHits(k, s) ==
    {p \in LineStarts(s) :
        IF k = 1 THEN AttributionAt(s, p)
        ELSE IF k = 2 THEN ForwardedAt(s, p)
        ELSE IF k = 3 THEN OriginalMsgAt(s, p)
        ELSE OutlookHeaderAt(s, p)}

\* the text before the first match of pattern k, s itself when none matches
TextBeforeMarker(k, s) ==
    IF MarkerHits(k, s) = {} THEN s ELSE Take(s, Min(MarkerHits(k, s)) - 1)

\* C14 as stated: StripQuotes applies its four truncations in the order
\* attribution, forwarded marker, original-message marker, Outlook header;
\* each one that matches cuts the body down to the text before its first
\* match, each later pattern is evaluated against the text cut so far, all
\* four are tried; the quoted lines and blank lines are dealt with after.
C14_TruncationsInOrder ==
    qpc = "done" =>
        qOut = TrimSpace(CollapseNewlines(RemoveQuotedLines(
                   TextBeforeMarker(4, TextBeforeMarker(3,
                       TextBeforeMarker(2, TextBeforeMarker(1, qBody)))))))

\* C14 as amended: the four truncations run in that order and all four are
\* tried; each one that matches cuts the body down to the text before its
\* first match with leading and trailing whitespace trimmed off, and each
\* later pattern is evaluated against that trimmed text; a reply of text, an
\* attribution line and a quoted line comes out as the text alone.
C14_TrimmedTruncationsInOrder ==
    /\ \A k \in 1..Len(qTrace) :
          LET prev == IF k = 1 THEN qBody ELSE qTrace[k - 1]
          IN  qTrace[k] = IF MarkerHits(k, prev) = {} THEN prev
                          ELSE TrimSpace(TextBeforeMarker(k, prev))
    /\ qpc \in {"lines", "done"} => Len(qTrace) = 4
    /\ qpc = "done" =>
          /\ qOut = TrimSpace(CollapseNewlines(RemoveQuotedLines(qTrace[4])))
          /\ qBody = QuotedReply => qOut = <<"B","o","d","y"," ","t","e","x","t">>

\* text, an original-message marker and an attribution line: the attribution
\* cut left the marker in the text, the marker's own check then cut at it
C14_Witness ==
    /\ qpc = "done"
    /\ qBody = <<"x","\n">> \o <<"-","-","-","-","-","O","r","i","g","i","n","a","l"," ","M","e","s","s","a","g","e","-","-","-","-","-","\n">> \o <<"O","n"," ","a"," ","w","r","o","t","e",":","\n">>
    /\ qTrace[1] = <<"x","\n","-","-","-","-","-","O","r","i","g","i","n","a","l"," ","M","e","s","s","a","g","e","-","-","-","-","-">>
    /\ qTrace[3] = <<"x">>
    /\ qOut = <<"x">>

\* C15: after the truncations StripQuotes strips every line that starts with
\* '>', so the text it returns has no line whose first character is '>'.
C15_NoQuotedLineLeft ==
    qpc = "done" =>
        \A p \in LineStarts(qOut) : p <= Len(qOut) => qOut[p] # ">"

\* where a signature delimiter line begins in s
DelimiterHits(s) == {p \in LineStarts(s) : SigDelimiterAt(s, p)}

\* C16: in StripSignature the delimiter check and the phrase scan are
\* alternatives: when the body has a delimiter line the result is the text
\* before the first such line, with no phrase-based cut applied to it;
\* "Hello", a blank line, "--" and a name give "Hello".
C16_DelimiterOrPhrases ==
    sigpc = "done" =>
        /\ DelimiterHits(sigBody) # {} =>
              sigOut = TrimSpace(Take(sigBody, Min(DelimiterHits(sigBody)) - 1))
        /\ sigBody = <<"H","e","l","l","o","\n","\n","-","-","\n","J","o","h","n"," ","D","o","e">> => sigOut = <<"H","e","l","l","o">>

\* the lines (numbered from 1) that are not blank, and the last n of them
NonEmptyLines(lines) == {k \in 1..Len(lines) : TrimSpace(lines[k]) # <<>>}

LastNonEmptyLines(lines, n) ==
    {k \in NonEmptyLines(lines) :
        Cardinality({j \in NonEmptyLines(lines) : j > k}) < n}

\* the last of the given lines that is a client-signature line, 0 if none is
LastPhraseLine(lines, among) ==
    IF \E k \in among : IsSigPhraseLine(TrimSpace(lines[k]))
    THEN CHOOSE k \in among :
             /\ IsSigPhraseLine(TrimSpace(lines[k]))
             /\ \A j \in among : IsSigPhraseLine(TrimSpace(lines[j])) => j <= k
    ELSE 0

\* C17: the phrase scan examines the last five non-empty lines, going
\* backward; blank lines do not count toward the five, so a client-signature
\* line among the last five non-empty lines is found and cut away however
\* many blank lines follow it.
C17_LastFiveNonEmptyLines ==
    sigpc = "done" =>
        LET k == LastPhraseLine(sigLines, LastNonEmptyLines(sigLines, 5))
        IN  k # 0 => sigOut = TrimSpace(JoinLines(Take(sigLines, k - 1)))

\* where line i (numbered from 0) of s begins
LineStartOf(s, i) ==
    CHOOSE p \in LineStarts(s) : Cardinality({q \in LineStarts(s) : q < p}) = i

\* C18: the phrase scan goes backward line by line from the last line; at the
\* first line that matches a client-signature phrase it stops, and the result
\* is the text before that line (less the whitespace around it): nothing of
\* that line or of a later line survives; with no delimiter line and no
\* matching line among those scanned the body is returned as it came.
C18_CutBeforeFirstPhraseLine ==
    LET phraseAt(k) == IsSigPhraseLine(TrimSpace(sigLines[sigSeen[k] + 1]))
    IN  /\ \A k \in 1..Len(sigSeen) : sigSeen[k] = Len(sigLines) - k
        /\ \A k \in 1..Len(sigSeen) : phraseAt(k) => k = Len(sigSeen) /\ sigpc = "done"
        /\ sigpc = "done" =>
              IF sigSeen # <<>> /\ phraseAt(Len(sigSeen))
              THEN sigOut = TrimSpace(Take(sigText,
                                LineStartOf(sigText, sigSeen[Len(sigSeen)]) - 1))
              ELSE /\ sigOut = sigText
                   /\ DelimiterHits(sigBody) = {} => sigOut = sigBody

\* a line of text, a client-signature line and a name under it: the scan
\* passed the name, stopped at the signature line, and the text is left
C18_Witness ==
    /\ sigpc = "done"
    /\ sigBody = <<"x","\n","S","e","n","t"," ","v","i","a"," ","a","\n","s","i","g">>
    /\ sigSeen = <<2, 1>>
    /\ sigOut = <<"x">>

\* the body has both a '<' and a '>' in it
HasBothBrackets ==
    /\ \E i \in DOMAIN mailBody : mailBody[i] = "<"
    /\ \E i \in DOMAIN mailBody : mailBody[i] = ">"

\* the text the strippers are given when quotes are, and are not, stripped
ExtractedWithoutQuotes ==
    IF HasBothBrackets THEN ParseAndExtract(StripQuotesFromHTML(mailBody))
    ELSE mailBody

ExtractedWhole ==
    IF HasBothBrackets THEN ParseAndExtract(mailBody) ELSE mailBody

\* C19: CleanBody is this composition: the body is markup iff it holds both
\* '<' and '>'; markup has its quote blocks removed (when quotes are
\* stripped) and is then extracted, anything else is taken as it is; then
\* StripQuotes if configured, then StripSignature if configured, in that
\* order; with neither option and no markup the body comes back unchanged.
C19_FixedComposition ==
    cpc \in {"cleaned", "recleaned"} =>
        /\ (~options.StripQuotes /\ ~options.StripSignatures) =>
              cleaned = ExtractedWhole
        /\ (options.StripQuotes /\ ~options.StripSignatures) =>
              cleaned = StripQuotes(ExtractedWithoutQuotes)
        /\ (~options.StripQuotes /\ options.StripSignatures) =>
              cleaned = StripSignature(ExtractedWhole)
        /\ (options.StripQuotes /\ options.StripSignatures) =>
              cleaned = StripSignature(StripQuotes(ExtractedWithoutQuotes))
        /\ (options = NoOptions /\ ~HasBothBrackets) => cleaned = mailBody

\* a quoted line, a line break tag and a client signature, cleaned with both
\* options on: the markup is extracted, the quoted line goes, then the
\* signature
C19_Witness ==
    /\ cpc = "cleaned"
    /\ options.StripQuotes /\ options.StripSignatures
    /\ mailBody = <<">","q">> \o <<"<","b","r",">">> \o <<"S","e","n","t"," ","v","i","a"," ","a">>
    /\ ExtractedWithoutQuotes = <<">","q","\n">> \o <<"S","e","n","t"," ","v","i","a"," ","a">>
    /\ StripQuotes(ExtractedWithoutQuotes) = <<"S","e","n","t"," ","v","i","a"," ","a">>
    /\ cleaned = <<>>

\* the text and HTML parts of the email (by their place in the list) that
\* have a body value
TextPartsWithValue ==
    {k \in 1..Len(eml.TextBody) : eml.TextBody[k].PartID \in DOMAIN eml.BodyValues}

HTMLPartsWithValue ==
    {k \in 1..Len(eml.HTMLBody) : eml.HTMLBody[k].PartID \in DOMAIN eml.BodyValues}

\* C20 as stated: with neither a plain-text body value nor an HTML body value
\* available the body text handed to the normalizer is the empty string;
\* otherwise the plain-text value is preferred over the HTML value.
C20_EmptyWithoutBodyValue ==
    bpc \in {"clean", "done"} =>
        IF TextPartsWithValue # {}
        THEN bodyText = eml.BodyValues[eml.TextBody[Min(TextPartsWithValue)].PartID].Value
        ELSE IF HTMLPartsWithValue # {}
        THEN bodyText = eml.BodyValues[eml.HTMLBody[Min(HTMLPartsWithValue)].PartID].Value
        ELSE bodyText = <<>>

\* C20 as amended: with neither a plain-text body value nor an HTML body
\* value available the body text handed to the normalizer is the email's
\* preview; otherwise the plain-text value is preferred over the HTML value.
C20_PreviewWithoutBodyValue ==
    /\ bpc \in {"clean", "done"} =>
          IF TextPartsWithValue # {}
          THEN bodyText = eml.BodyValues[eml.TextBody[Min(TextPartsWithValue)].PartID].Value
          ELSE IF HTMLPartsWithValue # {}
          THEN bodyText = eml.BodyValues[eml.HTMLBody[Min(HTMLPartsWithValue)].PartID].Value
          ELSE bodyText = eml.Preview
    /\ bpc = "done" => cleanBody = CleanBody(bodyText, bodyOpts)

\* an email whose parts have no value and whose preview is not empty, cleaned
C20_Witness ==
    /\ bpc = "done"
    /\ eml.TextBody # <<>> /\ eml.HTMLBody # <<>>
    /\ TextPartsWithValue = {} /\ HTMLPartsWithValue = {}
    /\ eml.Preview = <<"p","v">>
    /\ bodyText = <<"p","v">>

\* C21: GroupEmailsBySubject does not modify the caller's input: the input
\* sequence holds the same messages in the same order throughout (the sort
\* of a group works on the group's own list), and a second grouping call
\* builds new conversations, with lists of their own, and changes nothing in
\* the conversations returned earlier.
C21_InputAndEarlierResultsKept ==
    /\ rpc # "off" => rMem[1] = rInput
    /\ \A i \in 1..Len(rRet) : SliceView(rMem, rRet[i].Emails) = rSeen[i]
    /\ (rpc = "call" /\ rCall >= 2) =>
          /\ Len(rItems) = Len(rRet)
          /\ \A i \in 1..Len(rItems) :
                /\ rItems[i].NormalizedSubject = rRet[i].NormalizedSubject
                /\ rItems[i].EmailCount = rRet[i].EmailCount
                /\ rItems[i].Emails.arr # 1
                /\ \A j \in 1..Len(rRet) : rItems[i].Emails.arr # rRet[j].Emails.arr

\* a second call has returned, and the first call's sort had put a later
\* message of the input before an earlier one in its conversation
C21_Witness ==
    /\ rpc = "call" /\ rCall = 2
    /\ \E i \in 1..Len(rSeen) : \E p, q \in 1..Len(rInput) :
          /\ p < q
          /\ Len(rSeen[i]) >= 2
          /\ rSeen[i][1] = rInput[q] /\ rSeen[i][2] = rInput[p]

\* where the message with this ID stands in the input
InputPlaceOf(id) == CHOOSE p \in 1..Len(emails) : emails[p].ID = id

\* C25: grouping is deterministic on timestamp ties: members of a
\* conversation whose parsed timestamps are equal (several unparseable ones
\* included) keep their relative input order, so the representative message
\* of a conversation is a function of the input sequence alone.
C25_TiesKeepInputOrder ==
    gpc = "done" =>
        \A n \in 1..Len(items) :
            \A i, j \in 1..Len(items[n].Emails) :
                (i < j /\ ParsedTime(items[n].Emails[i]) = ParsedTime(items[n].Emails[j]))
                    => InputPlaceOf(items[n].Emails[i].ID) < InputPlaceOf(items[n].Emails[j].ID)

\* C26: after any sequence of SetItems, SetHeight, MoveUp and MoveDown, a
\* non-empty list has 0 <= cursor < len(items) and 0 <= offset <= cursor, so
\* Selected() never indexes outside items; an empty list has cursor and
\* offset at 0 and Selected() returns nil.
C26_CursorInBounds ==
    /\ threadList.items # <<>> =>
          /\ 0 <= threadList.cursor /\ threadList.cursor < Len(threadList.items)
          /\ 0 <= threadList.offset /\ threadList.offset <= threadList.cursor
    /\ threadList.items = <<>> => threadList.cursor = 0 /\ threadList.offset = 0
    /\ selected.item # "panic"
    /\ selected.of = 0 <=> selected.item = "nil"

\* the list has been scrolled down to its last row, and that row was selected
C26_Witness ==
    /\ Len(threadList.items) = MaxItems
    /\ threadList.cursor = MaxItems - 1
    /\ threadList.offset > 0
    /\ selected = [of |-> MaxItems, item |-> ToString(MaxItems)]

\* C27: after any sequence of SetItems, SetHeight, MoveUp and MoveDown on a
\* non-empty list the cursor is inside the rendered window, offset <= cursor
\* < offset + height, so the selected row is among the rows View draws, also
\* after the terminal was made smaller.
C27_CursorVisible ==
    threadList.items # <<>> =>
        /\ threadList.offset <= threadList.cursor
        /\ threadList.cursor < threadList.offset + threadList.height
        /\ threadList.cursor \in ViewRows(threadList)

\* C28: asynchronous results are not applied out of order: with search A and
\* then search B submitted before A's result came, once both results have
\* been handled (whichever came first) the list holds B's conversations; and
\* a loaded thread that arrives after the user has left the list view does
\* not switch the view to the thread view.
C28_ResultsInOrder ==
    /\ ( /\ Len(delivered) >= 2
         /\ delivered[1].type = "searchResultMsg" /\ ~delivered[1].err
         /\ delivered[2].type = "searchResultMsg" /\ ~delivered[2].err
         /\ lastMsg.msg = delivered[2] /\ Len(delivered) = 2 )
          => tui.threadList.items = ConversationsFound(2)
    /\ ( /\ lastMsg.msg.type = "threadLoadedMsg" /\ ~lastMsg.msg.err
         /\ lastMsg.before.view # "viewList" )
          => tui.view # "viewThread"

\* C29: a searchResultMsg or threadLoadedMsg that carries an error changes
\* only loading (to false), err and status: the view, the thread list's
\* items, cursor and offset and the thread view's emails are as before.
C29_ErrorLeavesViewsAlone ==
    (lastMsg.msg.type \in {"searchResultMsg", "threadLoadedMsg"} /\ lastMsg.msg.err) =>
        /\ ~tui.loading
        /\ tui.err = "error"
        /\ tui.view = lastMsg.before.view
        /\ tui.threadList = lastMsg.before.threadList
        /\ tui.threadView = lastMsg.before.threadView

\* a search fails while the list of an earlier search is shown, scrolled down
C29_Witness ==
    /\ lastMsg.msg.type = "searchResultMsg" /\ lastMsg.msg.err
    /\ lastMsg.before.loading
    /\ tui.view = "viewList"
    /\ tui.threadList.items = ConversationsFound(1)
    /\ tui.threadList.cursor = 1

\* C24: the names deduplicateFilename returns for any sequence of names,
\* with the same usedNames map, are pairwise distinct.
C24_NamesDistinct ==
    \A i, j \in DOMAIN written : written[i] = written[j] => i = j

\* C23: a non-empty FASTMAIL_API_TOKEN wins and no file is read; otherwise
\* the token is the one in the file at ~/.config/fastmail-tui/config.json,
\* and Load fails only when that file is missing or is not valid JSON.
C23_EnvThenDocumentedFile ==
    cfgpc = "returned" =>
        IF cfgEnv # ""
        THEN cfgOut = [APIToken |-> cfgEnv, err |-> FALSE] /\ cfgRead = {}
        ELSE IF cfgFiles[DocumentedConfigPath] \in {"missing", "not JSON"}
        THEN cfgOut.err
        ELSE /\ ~cfgOut.err
             /\ cfgRead = {DocumentedConfigPath}
             /\ cfgFiles[DocumentedConfigPath] = "api_token"
                    => cfgOut.APIToken = TokenIn(DocumentedConfigPath)

\* C30: Call and DownloadBlob return "not connected" and send no request
\* unless a Connect before them returned nil; after a failed Connect a Call
\* still fails with "not connected", and no request runs with an empty
\* account id.
C30_RequestsOnlyWhenConnected ==
    \A i \in DOMAIN clientLog :
        clientLog[i].op \in {"Call", "DownloadBlob"} =>
            IF \E j \in 1..(i - 1) : clientLog[j].op = "Connect" /\ clientLog[j].ret = "nil"
            THEN clientLog[i].sent => clientLog[i].account # ""
            ELSE clientLog[i].ret = "not connected" /\ ~clientLog[i].sent

\* C22: the threads printed by a -q run have the ids 1..Count in order; a
\* -t <id> run fetches exactly the email IDs saved for that id in the state
\* file; an id outside 1..Count, or a -t run without a saved result, ends
\* with an error and fetches nothing.
C22_ThreadIdsOfLastQuery ==
    /\ (cliOut.flag = "q" /\ ~cliOut.err) =>
          /\ cliOut.printed.Count = Len(cliOut.printed.Threads)
          /\ \A i \in 1..cliOut.printed.Count : cliOut.printed.Threads[i].ID = i
    /\ cliOut.flag = "t" =>
          IF stateFile # NoResult /\ cliOut.id \in 1..stateFile.Count
          THEN cliOut.fetched = stateFile.Threads[cliOut.id].EmailIDs
          ELSE cliOut.err /\ cliOut.fetched = <<>> /\ ~cliOut.launched

====
